---- MODULE Spec2Model ----
(***************************************************************************)
(* A model of json_utils.py: the bracket-matching scanner                  *)
(* (extract_first_json_object), the schema matcher (matches_mode), the     *)
(* extraction strategy chain (extract_json_from_text), the schema          *)
(* validator (validate_review_schema), the fallback synthesizer            *)
(* (create_fallback_review) and format_json; and of the pipelines of       *)
(* claude_cr.py, codex_cr.py and copilot_cr.py that call them.             *)
(*                                                                         *)
(* A text is a sequence of characters.  The alphabet is small: the JSON    *)
(* punctuation, the double quote, the backslash, one digit, one letter,    *)
(* the line feed, and a few words that stand for their characters as one   *)
(* symbol: the field names of the mode signatures, the JSON literal null,  *)
(* the three backticks of a fence and the tag json that follows them.      *)
(* Indices are Python's: the first character of a text has index 0.        *)
(***************************************************************************)
EXTENDS Integers, Sequences, FiniteSets, TLC

VARIABLES
    text,           \* the raw text handed to the function under study
    mode,           \* the mode tag: "review", "analyze", "priority" or NoneMode
    pc,             \* the position of the running function
    result,         \* the outcome of extract_json_from_text (a Python value)
    strategy,       \* the strategy that produced the outcome (0: none yet)
    consulted,      \* the strategies consulted so far, in order
    search_start,   \* the cursor of the mode-anchored field search
    scan,           \* the locals of extract_first_json_object
    span,           \* what extract_first_json_object returned
    json_data,      \* the candidate handed to validate_review_schema
    valid,          \* the outcome of validate_review_schema ("" before the call)
    reason,         \* the error_msg handed to create_fallback_review
    fallback,       \* what create_fallback_review returned
    calls,          \* the number of calls of create_fallback_review so far
    caller,         \* the backend function that runs the pipeline
    structured_output,  \* claude_cr: the stored StructuredOutput input
    ret,            \* what the backend function returned or raised
    result_file,    \* the content of the result file (None: not written)
    events,         \* claude_cr: the lines of process.stdout not yet read
    raw_output_lines,   \* claude_cr: the lines read so far
    final_result,   \* claude_cr: the text of the last result event
    workers,        \* main: the worker of each mode that runs
    raw_output_file,    \* the writes to raw_output.txt so far, in order
    files,          \* the writes to the result files so far, in order
    results,        \* main: the results map
    main            \* main: its position, and what the report read

\* the variables of the schema functions and of the backend pipelines
schema == <<json_data, valid, reason, fallback, calls>>
stream == <<events, raw_output_lines, final_result>>
pool == <<workers, raw_output_file, files, results, main>>
run == <<caller, structured_output, ret, result_file, stream, pool>>

vars == <<text, mode, pc, result, strategy, consulted, search_start, scan, span,
          schema, run>>

-----------------------------------------------------------------------------
(* Characters *)

QUOTE == "\""
BACKSLASH == "\\"
LF == "\n"
\* the three backticks that open and close a fenced block, as one symbol
FENCE == "fence"
JSONTAG == "json"

\* str.isspace() characters of the alphabet: what \s matches and what
\* the WHITESPACE pattern of json skips
Whitespace == {" ", LF}

\* the character at Python index k of s, "" past the end (s[k:k+1])
At(s, k) == IF k >= 0 /\ k < Len(s) THEN s[k + 1] ELSE ""

\* the Python slice s[a:b]
Slice(s, a, b) == IF b <= a THEN <<>> ELSE SubSeq(s, a + 1, b)

-----------------------------------------------------------------------------
(* Python values.  Every value is a record [t, v]: t is the Python type    *)
(* name, v the content as a sequence (the characters of a str, the digits  *)
(* of an int, the elements of a list, the <<key, value>> pairs of a dict   *)
(* in insertion order).                                                    *)

None == [t |-> "NoneType", v |-> <<>>]
TypeError == [t |-> "TypeError", v |-> <<>>]
JSONDecodeError == [t |-> "JSONDecodeError", v |-> <<>>]
PyStr(chars) == [t |-> "str", v |-> chars]
PyInt(digits) == [t |-> "int", v |-> digits]
PyList(items) == [t |-> "list", v |-> items]
PyDict(pairs) == [t |-> "dict", v |-> pairs]

IsException(x) == x.t \in {"TypeError", "JSONDecodeError"}

\* the keys of a dict
Keys(d) == {d.v[n][1] : n \in 1..Len(d.v)}

\* d[key] = value on the pairs of a dict: a repeated key keeps its first
\* position and takes the last value
SetItem(pairs, key, value) ==
    IF \E n \in 1..Len(pairs) : pairs[n][1] = key
    THEN [n \in 1..Len(pairs) |->
            IF pairs[n][1] = key THEN <<key, value>> ELSE pairs[n]]
    ELSE Append(pairs, <<key, value>>)

-----------------------------------------------------------------------------
(* json.loads, as the standard library's decoder computes it.  A parse     *)
(* step returns [ok, v, end]: the value and the index after it.            *)

Fail == [ok |-> FALSE, v |-> None, end |-> 0]
Ok(value, e) == [ok |-> TRUE, v |-> value, end |-> e]

RECURSIVE SkipWhitespace(_, _)
SkipWhitespace(s, k) ==
    IF At(s, k) \in Whitespace THEN SkipWhitespace(s, k + 1) ELSE k

\* a float, by the characters of its repr
PyFloat(chars) == [t |-> "float", v |-> chars]

\* the digits of the alphabet
Digits == {"0", "1"}

\* the end of the run of digits from index k
RECURSIVE NumberEnd(_, _)
NumberEnd(s, k) == IF At(s, k) \in Digits THEN NumberEnd(s, k + 1) ELSE k

\* repr(float(integer + "." + frac)): the trailing zeros of the fraction
\* are dropped, one digit is kept (integer parts below 10^16)
RECURSIVE float_repr(_, _)
float_repr(integer, frac) ==
    IF Len(frac) > 1 /\ frac[Len(frac)] = "0"
    THEN float_repr(integer, SubSeq(frac, 1, Len(frac) - 1))
    ELSE integer \o <<".">> \o frac

\* the scanner's match_number from the digit at k: NUMBER_RE takes 0 or a
\* run of digits that does not start with 0, then a fraction if a point and
\* a digit follow; with a fraction the value is a float, else an int
match_number(s, k) ==
    LET int_end == IF At(s, k) = "0" THEN k + 1 ELSE NumberEnd(s, k)
        frac_end == IF At(s, int_end) = "." /\ At(s, int_end + 1) \in Digits
                    THEN NumberEnd(s, int_end + 1) ELSE int_end
    IN  IF frac_end > int_end
        THEN Ok(PyFloat(float_repr(Slice(s, k, int_end),
                                   Slice(s, int_end + 1, frac_end))), frac_end)
        ELSE Ok(PyInt(Slice(s, k, int_end)), int_end)

\* py_scanstring from index k, just after the opening quote: a backslash
\* takes the next character as an escape (\", \\ and \n are the escapes of
\* the alphabet), a raw control character is rejected (strict mode)
RECURSIVE scanstring(_, _, _)
scanstring(s, k, chars) ==
    LET c == At(s, k) IN
    IF c = "" THEN Fail
    ELSE IF c = QUOTE THEN Ok(PyStr(chars), k + 1)
    ELSE IF c = BACKSLASH
         THEN IF At(s, k + 1) \in {QUOTE, BACKSLASH}
              THEN scanstring(s, k + 2, Append(chars, At(s, k + 1)))
              ELSE IF At(s, k + 1) = "n"
              THEN scanstring(s, k + 2, Append(chars, LF))
              ELSE Fail
    ELSE IF c = LF THEN Fail
    ELSE scanstring(s, k + 1, Append(chars, c))

RECURSIVE scan_once(_, _)
RECURSIVE JSONObjectPairs(_, _, _)
RECURSIVE JSONArrayItems(_, _, _)

\* JSONObject after a key's opening quote at k - 1
JSONObjectPairs(s, k, pairs) ==
    LET key == scanstring(s, k, <<>>) IN
    IF ~key.ok THEN Fail
    ELSE LET colon == SkipWhitespace(s, key.end) IN
         IF At(s, colon) # ":" THEN Fail
         ELSE LET value == scan_once(s, SkipWhitespace(s, colon + 1)) IN
              IF ~value.ok THEN Fail
              ELSE LET sep == SkipWhitespace(s, value.end)
                       pairs2 == SetItem(pairs, key.v.v, value.v)
                   IN IF At(s, sep) = "}" THEN Ok(PyDict(pairs2), sep + 1)
                      ELSE IF At(s, sep) # "," THEN Fail
                      ELSE LET nxt == SkipWhitespace(s, sep + 1) IN
                           IF At(s, nxt) # QUOTE THEN Fail
                           ELSE JSONObjectPairs(s, nxt + 1, pairs2)

\* JSONObject from index k, just after the opening brace
JSONObject(s, k) ==
    LET first == SkipWhitespace(s, k) IN
    IF At(s, first) = "}" THEN Ok(PyDict(<<>>), first + 1)
    ELSE IF At(s, first) # QUOTE THEN Fail
    ELSE JSONObjectPairs(s, first + 1, <<>>)

\* JSONArray before the item at k
JSONArrayItems(s, k, items) ==
    LET value == scan_once(s, k) IN
    IF ~value.ok THEN Fail
    ELSE LET sep == SkipWhitespace(s, value.end)
             items2 == Append(items, value.v)
         IN IF At(s, sep) = "]" THEN Ok(PyList(items2), sep + 1)
            ELSE IF At(s, sep) # "," THEN Fail
            ELSE JSONArrayItems(s, SkipWhitespace(s, sep + 1), items2)

\* JSONArray from index k, just after the opening bracket
JSONArray(s, k) ==
    LET first == SkipWhitespace(s, k) IN
    IF At(s, first) = "]" THEN Ok(PyList(<<>>), first + 1)
    ELSE JSONArrayItems(s, first, <<>>)

\* the scanner's _scan_once: one JSON value starting at index k
scan_once(s, k) ==
    LET c == At(s, k) IN
    IF c = QUOTE THEN scanstring(s, k + 1, <<>>)
    ELSE IF c = "{" THEN JSONObject(s, k + 1)
    ELSE IF c = "[" THEN JSONArray(s, k + 1)
    ELSE IF c = "null" THEN Ok(None, k + 1)
    ELSE IF c \in Digits THEN match_number(s, k)
    ELSE Fail

\* json.loads(s): one value, whitespace around it, nothing else;
\* JSONDecodeError otherwise
loads(s) ==
    LET obj == scan_once(s, SkipWhitespace(s, 0)) IN
    IF obj.ok /\ SkipWhitespace(s, obj.end) = Len(s) THEN obj.v
    ELSE JSONDecodeError

-----------------------------------------------------------------------------
(* format_json: json.dumps(data, ensure_ascii=False, indent=indent), as    *)
(* the standard library's encoder computes it.                             *)

\* the default of format_json's indent parameter
indent == 2

\* the body of a string literal without any escaping
RawBasestring(chars) == chars

\* encode_basestring without the quotes: the quote, the backslash and the
\* line feed are escaped, every other character stands for itself
RECURSIVE encode_basestring(_)
encode_basestring(chars) ==
    IF chars = <<>> THEN <<>>
    ELSE LET c == Head(chars) IN
         (IF c = QUOTE THEN <<BACKSLASH, QUOTE>>
          ELSE IF c = BACKSLASH THEN <<BACKSLASH, BACKSLASH>>
          ELSE IF c = LF THEN <<BACKSLASH, "n">>
          ELSE <<c>>) \o encode_basestring(Tail(chars))

\* the line feed and the indentation before an item at nesting level
RECURSIVE Spaces(_)
Spaces(n) == IF n <= 0 THEN <<>> ELSE <<" ">> \o Spaces(n - 1)
newline_indent(level) == <<LF>> \o Spaces(indent * level)

RECURSIVE iterencode(_, _)
RECURSIVE iterencode_list(_, _, _)
RECURSIVE iterencode_dict(_, _, _)

\* the items of a list from the n-th on, each on its own line
iterencode_list(items, n, level) ==
    IF n > Len(items) THEN <<>>
    ELSE (IF n > 1 THEN <<",">> ELSE <<>>)
         \o newline_indent(level) \o iterencode(items[n], level)
         \o iterencode_list(items, n + 1, level)

\* the pairs of a dict from the n-th on, each on its own line
iterencode_dict(pairs, n, level) ==
    IF n > Len(pairs) THEN <<>>
    ELSE (IF n > 1 THEN <<",">> ELSE <<>>)
         \o newline_indent(level)
         \o <<QUOTE>> \o encode_basestring(pairs[n][1]) \o <<QUOTE, ":", " ">>
         \o iterencode(pairs[n][2], level)
         \o iterencode_dict(pairs, n + 1, level)

\* the encoding of the value o at nesting level
iterencode(o, level) ==
    IF o.t = "str" THEN <<QUOTE>> \o encode_basestring(o.v) \o <<QUOTE>>
    ELSE IF o.t = "NoneType" THEN <<"null">>
    ELSE IF o.t \in {"int", "float"} THEN o.v
    ELSE IF o.t = "list"
         THEN IF o.v = <<>> THEN <<"[", "]">>
              ELSE <<"[">> \o iterencode_list(o.v, 1, level + 1)
                           \o newline_indent(level) \o <<"]">>
    ELSE IF o.v = <<>> THEN <<"{", "}">>
         ELSE <<"{">> \o iterencode_dict(o.v, 1, level + 1)
                      \o newline_indent(level) \o <<"}">>

format_json(data) == iterencode(data, 0)

-----------------------------------------------------------------------------
(* extract_first_json_object: the bracket-matching scanner.  scan holds    *)
(* its locals; i is the index enumerate() is at, returned says that the    *)
(* return inside the loop was taken (i is then the closing brace).         *)

ScanStart ==
    [i |-> 0, brace_count |-> 0, start_idx |-> -1,
     in_string |-> FALSE, escape_next |-> FALSE, returned |-> FALSE]

\* LoopBody with the escape handling left out: a backslash is an ordinary
\* character and every quote toggles in_string
LoopBodyNoEscape(s, st) ==
    LET char == At(s, st.i)
        next == [st EXCEPT !.i = st.i + 1]
    IN  IF char = QUOTE THEN [next EXCEPT !.in_string = ~st.in_string]
        ELSE IF st.in_string THEN next
        ELSE IF char = "{"
             THEN [next EXCEPT
                     !.start_idx = IF st.brace_count = 0 THEN st.i ELSE @,
                     !.brace_count = @ + 1]
        ELSE IF char = "}"
             THEN IF st.brace_count - 1 = 0 /\ st.start_idx # -1
                  THEN [st EXCEPT !.brace_count = @ - 1, !.returned = TRUE]
                  ELSE [next EXCEPT !.brace_count = @ - 1]
        ELSE next

\* one iteration of the for loop, on the character at index st.i
LoopBody(s, st) ==
    LET char == At(s, st.i)
        next == [st EXCEPT !.i = st.i + 1]
    IN  IF st.escape_next THEN [next EXCEPT !.escape_next = FALSE]
        ELSE IF char = BACKSLASH /\ st.in_string
             THEN [next EXCEPT !.escape_next = TRUE]
        ELSE IF char = QUOTE /\ ~st.escape_next
             THEN [next EXCEPT !.in_string = ~st.in_string]
        ELSE IF st.in_string THEN next
        ELSE IF char = "{"
             THEN [next EXCEPT
                     !.start_idx = IF st.brace_count = 0 THEN st.i ELSE @,
                     !.brace_count = @ + 1]
        ELSE IF char = "}"
             THEN IF st.brace_count - 1 = 0 /\ st.start_idx # -1
                  THEN [st EXCEPT !.brace_count = @ - 1, !.returned = TRUE]
                  ELSE [next EXCEPT !.brace_count = @ - 1]
        ELSE next

\* the loop is over: the return inside it was taken, or the text is exhausted
LoopOver(s, st) == st.returned \/ st.i >= Len(s)

RECURSIVE RunLoop(_, _)
RunLoop(s, st) == IF LoopOver(s, st) THEN st ELSE RunLoop(s, LoopBody(s, st))

\* the value returned once the loop is over: text[start_idx:i+1] or None
ReturnValue(s, st) ==
    IF st.returned THEN PyStr(Slice(s, st.start_idx, st.i + 1)) ELSE None

extract_first_json_object(s) == ReturnValue(s, RunLoop(s, ScanStart))

-----------------------------------------------------------------------------
(* matches_mode and the mode signatures *)

NoneMode == "None"

mode_signatures ==
    [review |-> <<"findings", "overall_correctness">>,
     analyze |-> <<"change_summary", "file_changes">>,
     priority |-> <<"review_summary", "priority_areas">>]

Modes == DOMAIN mode_signatures \cup {NoneMode}

\* Python's (field in container): a key of a dict, an element of a list, a
\* substring of a str; any other container raises TypeError
Contains(container, field) ==
    IF container.t = "dict" THEN
        IF <<field>> \in Keys(container) THEN "True" ELSE "False"
    ELSE IF container.t = "list" THEN
        IF \E n \in 1..Len(container.v) : container.v[n] = PyStr(<<field>>)
        THEN "True" ELSE "False"
    ELSE IF container.t = "str" THEN
        IF \E n \in 1..Len(container.v) : container.v[n] = field
        THEN "True" ELSE "False"
    ELSE "TypeError"

\* all(field in parsed for field in sig_fields): stops at the first False,
\* and a raising test raises
RECURSIVE AllContained(_, _, _)
AllContained(parsed, sig_fields, n) ==
    IF n > Len(sig_fields) THEN "True"
    ELSE LET test == Contains(parsed, sig_fields[n]) IN
         IF test = "True" THEN AllContained(parsed, sig_fields, n + 1) ELSE test

\* a matcher that accepts every object, whatever its keys
MatchesAnyObject(parsed, target_mode) ==
    IF parsed.t = "dict" THEN "True" ELSE "False"

\* "True", "False", or "TypeError" when the call raises
matches_mode(parsed, target_mode) ==
    IF target_mode \notin DOMAIN mode_signatures THEN "True"
    ELSE AllContained(parsed, mode_signatures[target_mode], 1)

-----------------------------------------------------------------------------
(* The strategies of extract_json_from_text.  Each yields an outcome:      *)
(* done (the function returns value, or raises when value is an            *)
(* exception) or not done (the next statement runs).                       *)

Return(value) == [done |-> TRUE, value |-> value]
Continue == [done |-> FALSE, value |-> None]

\* if mode is None or matches_mode(parsed, mode): return parsed
ReturnIfMatches(parsed, m) ==
    IF m = NoneMode THEN Return(parsed)
    ELSE LET matched == matches_mode(parsed, m) IN
         IF matched = "True" THEN Return(parsed)
         ELSE IF matched = "TypeError" THEN Return(TypeError)
         ELSE Continue

\* WholeText giving up: the chain ends with None when the entire text does
\* not parse
WholeTextOrNone(s, m) ==
    LET parsed == loads(s) IN
    IF parsed.t = "JSONDecodeError" THEN Return(None)
    ELSE ReturnIfMatches(parsed, m)

\* strategy 1: json.loads of the entire text
WholeText(s, m) ==
    LET parsed == loads(s) IN
    IF parsed.t = "JSONDecodeError" THEN Continue ELSE ReturnIfMatches(parsed, m)

\* str.find(sub, start): the lowest index >= start where sub occurs, or -1
Find(s, sub, start) ==
    LET hits == {k \in start..(Len(s) - Len(sub)) :
                    \A j \in 1..Len(sub) : s[k + j] = sub[j]}
    IN  IF hits = {} THEN -1 ELSE CHOOSE k \in hits : \A h \in hits : k <= h

\* str.rfind(c, start, end): the highest index in [start, end) holding c, or -1
RFind(s, c, start, end) ==
    LET hits == {k \in start..(end - 1) : At(s, k) = c}
    IN  IF hits = {} THEN -1 ELSE CHOOSE k \in hits : \A h \in hits : k >= h

\* re.findall(r'```json\s*\n?(.*?)\n?```', s, re.DOTALL) from index k on:
\* the groups of the successive non-overlapping matches.  After the tag the
\* greedy \s* takes all the whitespace; the lazy group then ends at the first
\* fence, without the one line feed before it when there is one.
RECURSIVE json_blocks(_, _)
json_blocks(s, k) ==
    LET open == Find(s, <<FENCE, JSONTAG>>, k) IN
    IF open = -1 THEN <<>>
    ELSE LET g == SkipWhitespace(s, open + 2)
             close == Find(s, <<FENCE>>, g)
         IN  IF close = -1 THEN <<>>
             ELSE LET e == IF close - 1 >= g /\ At(s, close - 1) = LF
                           THEN close - 1 ELSE close
                  IN  <<Slice(s, g, e)>> \o json_blocks(s, close + 1)

\* strategy 2: the for loop over the fenced blocks, from block n on
RECURSIVE FencedBlocks(_, _, _)
FencedBlocks(matches, m, n) ==
    IF n > Len(matches) THEN Continue
    ELSE LET parsed == loads(matches[n]) IN
         IF parsed.t = "JSONDecodeError" THEN FencedBlocks(matches, m, n + 1)
         ELSE LET out == ReturnIfMatches(parsed, m) IN
              IF out.done THEN out ELSE FencedBlocks(matches, m, n + 1)

\* AnchoredIteration with a cursor that moves to the examined occurrence
\* instead of past it
AnchoredIterationStuck(s, m, cursor) ==
    LET first_field == mode_signatures[m][1]
        pos1 == Find(s, <<QUOTE, first_field, QUOTE>>, cursor)
        brace_start == RFind(s, "{", cursor, pos1)
        json_str == extract_first_json_object(Slice(s, brace_start, Len(s)))
        parsed == loads(json_str.v)
    IN  IF pos1 = -1
        THEN [over |-> TRUE, out |-> Continue, cursor |-> cursor]
        ELSE IF brace_start = -1
        THEN [over |-> FALSE, out |-> Continue, cursor |-> pos1]
        ELSE IF json_str.t = "str" /\ Len(json_str.v) > 0
                /\ parsed.t # "JSONDecodeError"
                /\ matches_mode(parsed, m) # "False"
        THEN [over |-> TRUE,
              out |-> IF matches_mode(parsed, m) = "True"
                      THEN Return(parsed) ELSE Return(TypeError),
              cursor |-> cursor]
        ELSE [over |-> FALSE, out |-> Continue, cursor |-> pos1]

\* strategy 3: one iteration of the while loop of the mode-anchored search.
\* over: the loop is left by break; cursor: the new search_start
AnchoredIteration(s, m, cursor) ==
    LET first_field == mode_signatures[m][1]
        pos1 == Find(s, <<QUOTE, first_field, QUOTE>>, cursor)
        brace_start == RFind(s, "{", cursor, pos1)
        json_str == extract_first_json_object(Slice(s, brace_start, Len(s)))
        parsed == loads(json_str.v)
    IN  IF pos1 = -1
        THEN [over |-> TRUE, out |-> Continue, cursor |-> cursor]
        ELSE IF brace_start = -1
        THEN [over |-> FALSE, out |-> Continue, cursor |-> pos1 + 1]
        ELSE IF json_str.t = "str" /\ Len(json_str.v) > 0
                /\ parsed.t # "JSONDecodeError"
                /\ matches_mode(parsed, m) # "False"
        THEN [over |-> TRUE,
              out |-> IF matches_mode(parsed, m) = "True"
                      THEN Return(parsed) ELSE Return(TypeError),
              cursor |-> cursor]
        ELSE [over |-> FALSE, out |-> Continue, cursor |-> pos1 + 1]

\* CheckObject without the matcher: every span that parses is returned
CheckObjectUnmatched(json_str, m) ==
    LET parsed == loads(json_str) IN
    IF parsed.t = "JSONDecodeError" THEN Continue ELSE Return(parsed)

\* strategy 4, the check of one enumerated span text[start_idx:i+1]
CheckObject(json_str, m) ==
    LET parsed == loads(json_str) IN
    IF parsed.t = "JSONDecodeError" THEN Continue
    ELSE IF m # NoneMode THEN
        LET matched == matches_mode(parsed, m) IN
        IF matched = "True" THEN Return(parsed)
        ELSE IF matched = "TypeError" THEN Return(TypeError)
        ELSE Continue
    ELSE IF \E sig \in DOMAIN mode_signatures :
               AllContained(parsed, mode_signatures[sig], 1) = "True"
         THEN Return(parsed)
    ELSE IF \E sig \in DOMAIN mode_signatures :
               AllContained(parsed, mode_signatures[sig], 1) = "TypeError"
         THEN Return(TypeError)
    ELSE IF parsed.t = "dict" THEN Return(parsed)
    ELSE Continue

\* the index of the first brace of s from index i on, Len(s) when there is
\* none: the characters before it leave the loop's variables as they are
NextBrace(s, i) ==
    IF \E k \in i..(Len(s) - 1) : At(s, k) \in {"{", "}"}
    THEN CHOOSE k \in i..(Len(s) - 1) :
            /\ At(s, k) \in {"{", "}"}
            /\ \A j \in i..(k - 1) : At(s, j) \notin {"{", "}"}
    ELSE Len(s)

\* strategy 4: the for loop over the characters, from index i on, with the
\* loop's brace_count and start_idx (no string tracking)
RECURSIVE EnumerateObjects(_, _, _, _, _)
EnumerateObjects(s, m, i, brace_count, start_idx) ==
    LET k == NextBrace(s, i) IN
    IF k >= Len(s) THEN Continue
    ELSE IF At(s, k) = "{"
    THEN EnumerateObjects(s, m, k + 1, brace_count + 1,
                          IF brace_count = 0 THEN k ELSE start_idx)
    ELSE IF brace_count - 1 = 0 /\ start_idx # -1
         THEN LET out == CheckObject(Slice(s, start_idx, k + 1), m) IN
              IF out.done THEN out
              ELSE EnumerateObjects(s, m, k + 1, 0, -1)
         ELSE EnumerateObjects(s, m, k + 1, brace_count - 1, start_idx)

-----------------------------------------------------------------------------
(* validate_review_schema and create_fallback_review.  The field names,    *)
(* the two recognized values of overall_correctness and the fixed parts of *)
(* the fallback explanation are single symbols.                            *)

KeyError == [t |-> "KeyError", v |-> <<>>]

\* container[key] for a str key: the value stored in a dict under the key;
\* a list, a str, a number or None raises TypeError
GetItem(container, key) ==
    IF container.t = "dict"
    THEN IF <<key>> \in Keys(container)
         THEN container.v[CHOOSE n \in 1..Len(container.v) :
                              container.v[n][1] = <<key>>][2]
         ELSE KeyError
    ELSE TypeError

required_fields ==
    <<"findings", "overall_correctness", "overall_explanation",
      "overall_confidence_score">>

required_finding_fields ==
    <<"title", "body", "confidence_score", "code_location">>

valid_correctness ==
    <<PyStr(<<"patch is correct">>), PyStr(<<"patch is incorrect">>)>>

\* the body of the loop over findings for one finding: "True" when every
\* check passes and the loop goes on, "False" when the function returns
\* False, the name of the exception when a test raises
CheckFinding(finding) ==
    LET present == AllContained(finding, required_finding_fields, 1) IN
    IF present # "True" THEN present
    ELSE LET code_location == GetItem(finding, "code_location") IN
         IF code_location.t \in {"TypeError", "KeyError"} THEN code_location.t
         ELSE AllContained(code_location,
                           <<"absolute_file_path", "line_range">>, 1)

\* the loop over findings from the n-th on
RECURSIVE CheckFindings(_, _)
CheckFindings(findings, n) ==
    IF n > Len(findings) THEN "True"
    ELSE LET checked == CheckFinding(findings[n]) IN
         IF checked = "True" THEN CheckFindings(findings, n + 1) ELSE checked

\* "True", "False", or the name of the exception when the call raises
validate_review_schema(candidate) ==
    LET present == AllContained(candidate, required_fields, 1) IN
    IF present # "True" THEN present
    ELSE LET findings == GetItem(candidate, "findings") IN
         IF findings.t \in {"TypeError", "KeyError"} THEN findings.t
         ELSE IF findings.t # "list" THEN "False"
         ELSE LET checked == CheckFindings(findings.v, 1) IN
              IF checked # "True" THEN checked
              ELSE IF \E n \in 1..Len(valid_correctness) :
                        GetItem(candidate, "overall_correctness")
                            = valid_correctness[n]
                   THEN "True" ELSE "False"

\* the fixed text before and after the reason in the fallback explanation
\* (the Chinese text of the f-string, each part one symbol)
ExplanationHead == "Review parsing failed: "
ExplanationTail == ". See the raw output file."

\* a fallback whose explanation leaves out the reason
FallbackWithoutReason(error_msg) ==
    PyDict(<< <<<<"findings">>, PyList(<<>>)>>,
              <<<<"overall_correctness">>, PyStr(<<"patch is correct">>)>>,
              <<<<"overall_explanation">>,
                PyStr(<<ExplanationHead, ExplanationTail>>)>>,
              <<<<"overall_confidence_score">>, PyFloat(<<"0", ".", "0">>)>> >>)

\* a fallback whose overall_correctness is not one of the recognized values
FallbackUndecided(error_msg) ==
    PyDict(<< <<<<"findings">>, PyList(<<>>)>>,
              <<<<"overall_correctness">>, PyStr(<<"x">>)>>,
              <<<<"overall_explanation">>,
                PyStr(<<ExplanationHead>> \o error_msg \o <<ExplanationTail>>)>>,
              <<<<"overall_confidence_score">>, PyFloat(<<"0", ".", "0">>)>> >>)

create_fallback_review(error_msg) ==
    PyDict(<< <<<<"findings">>, PyList(<<>>)>>,
              <<<<"overall_correctness">>, PyStr(<<"patch is correct">>)>>,
              <<<<"overall_explanation">>,
                PyStr(<<ExplanationHead>> \o error_msg \o <<ExplanationTail>>)>>,
              <<<<"overall_confidence_score">>, PyFloat(<<"0", ".", "0">>)>> >>)

\* the reasons the callers give (the Chinese texts, each one symbol)
CannotExtract == <<"cannot extract JSON">>
SchemaFailed == <<"schema validation failed">>

-----------------------------------------------------------------------------
(* The inputs.  The texts handed to extract_json_from_text are made of up  *)
(* to MaxParts pieces of subprocess output; the pieces are written with    *)
(* the signature fields of the mode under study (those of review when no   *)
(* mode is given).  The texts handed to extract_first_json_object alone    *)
(* are all the texts of up to MaxScanLen characters of ScanAlphabet.       *)

MaxParts == 3
MaxScanLen == 7

ScanAlphabet == {"{", "}", QUOTE, BACKSLASH, "x"}

Signature(m) ==
    IF m \in DOMAIN mode_signatures THEN mode_signatures[m]
    ELSE mode_signatures["review"]

Quoted(name) == <<QUOTE, name, QUOTE>>
Fenced(body) == <<FENCE, JSONTAG, LF>> \o body \o <<LF, FENCE>>

\* {"f1":1,"f2":1}
ObjectA(m) ==
    <<"{">> \o Quoted(Signature(m)[1]) \o <<":", "1", ",">>
            \o Quoted(Signature(m)[2]) \o <<":", "1", "}">>
\* {"f2":"{","f1":11}: the other key order, an opening brace in a string
ObjectB(m) ==
    <<"{">> \o Quoted(Signature(m)[2]) \o <<":">> \o Quoted("{") \o <<",">>
            \o Quoted(Signature(m)[1]) \o <<":", "1", "1", "}">>
\* {"f1":"\"}","f2":1}: an escaped quote and a closing brace in a string
ObjectS(m) ==
    <<"{">> \o Quoted(Signature(m)[1])
            \o <<":", QUOTE, BACKSLASH, QUOTE, "}", QUOTE, ",">>
            \o Quoted(Signature(m)[2]) \o <<":", "1", "}">>
\* {"f1":1,"f2":11}: the object the fenced block holds
ObjectF(m) ==
    <<"{">> \o Quoted(Signature(m)[1]) \o <<":", "1", ",">>
            \o Quoted(Signature(m)[2]) \o <<":", "1", "1", "}">>
\* {"f1":1}: an object without the second signature field
ObjectHalf(m) == <<"{">> \o Quoted(Signature(m)[1]) \o <<":", "1", "}">>
\* ["f1","f2"]: a list of the field names of the signature
ListOfFields(m) ==
    <<"[">> \o Quoted(Signature(m)[1]) \o <<",">>
            \o Quoted(Signature(m)[2]) \o <<"]">>
\* "f1 f2": a string that holds the field names of the signature
StringOfFields(m) == <<QUOTE, Signature(m)[1], " ", Signature(m)[2], QUOTE>>
\* {"f1":"\"\n","f2":1.10}: an escaped quote and an escaped line feed in a
\* string, a float written with a trailing zero
ObjectE(m) ==
    <<"{">> \o Quoted(Signature(m)[1])
            \o <<":", QUOTE, BACKSLASH, QUOTE, BACKSLASH, "n", QUOTE, ",">>
            \o Quoted(Signature(m)[2]) \o <<":", "1", ".", "1", "0", "}">>

Parts(m) ==
    { <<"x">>, <<"1">>, <<"null">>, <<"{">>, <<"}">>,
      ObjectA(m), ObjectB(m), ObjectS(m), ObjectHalf(m),
      ListOfFields(m), StringOfFields(m),
      Fenced(ObjectF(m)), Fenced(ObjectHalf(m)), Fenced(<<"1">>),
      Fenced(<<"}">>) }

RECURSIVE Concat(_)
Concat(pieces) ==
    IF pieces = <<>> THEN <<>> ELSE Head(pieces) \o Concat(Tail(pieces))

Texts(m) ==
    { Concat(pieces) :
        pieces \in UNION { [1..n -> Parts(m)] : n \in 1..MaxParts } }

ScanTexts == UNION { [1..n -> ScanAlphabet] : n \in 0..MaxScanLen }

-----------------------------------------------------------------------------
(* extract_json_from_text as a state machine: one action per strategy,     *)
(* the mode-anchored search one action per iteration of its while loop.    *)

\* what a backend function has returned: nothing yet
NoReturn == [kind |-> "running", success |-> FALSE, result |-> <<>>]

\* the schema functions not called, no backend pipeline running
SchemaAtRest ==
    /\ json_data = None
    /\ valid = ""
    /\ reason = <<>>
    /\ fallback = None
    /\ calls = 0

\* no event stream being read
StreamAtRest ==
    /\ events = <<>>
    /\ raw_output_lines = <<>>
    /\ final_result = None

\* no pool of workers running
PoolAtRest ==
    /\ workers = <<>>
    /\ raw_output_file = <<>>
    /\ files = <<>>
    /\ results = <<>>
    /\ main = <<>>

RunAtRest ==
    /\ caller = ""
    /\ structured_output = None
    /\ ret = NoReturn
    /\ result_file = None
    /\ StreamAtRest
    /\ PoolAtRest

Init ==
    /\ mode \in Modes
    /\ text \in Texts(mode)
    /\ pc = "whole"
    /\ result = None
    /\ strategy = 0
    /\ consulted = <<>>
    /\ search_start = 0
    /\ scan = ScanStart
    /\ span = None
    /\ SchemaAtRest
    /\ RunAtRest

\* the statement that follows strategy n when it returns nothing
AfterStrategy(n, m) ==
    IF n = 1 THEN "blocks"
    ELSE IF n = 2 THEN (IF m \in DOMAIN mode_signatures THEN "anchored"
                        ELSE "objects")
    ELSE IF n = 3 THEN "objects"
    ELSE "return_none"

\* the effect of strategy n ending with outcome out
Finish(n, out) ==
    /\ consulted' = IF n \in {consulted[k] : k \in 1..Len(consulted)}
                    THEN consulted ELSE Append(consulted, n)
    /\ IF out.done
       THEN /\ pc' = "done"
            /\ result' = out.value
            /\ strategy' = n
       ELSE /\ pc' = AfterStrategy(n, mode)
            /\ UNCHANGED <<result, strategy>>

TryWholeText ==
    /\ pc = "whole"
    /\ Finish(1, WholeText(text, mode))
    /\ UNCHANGED <<text, mode, search_start, scan, span>>
    /\ UNCHANGED <<schema, run>>

TryFencedBlocks ==
    /\ pc = "blocks"
    /\ Finish(2, FencedBlocks(json_blocks(text, 0), mode, 1))
    /\ UNCHANGED <<text, mode, search_start, scan, span>>
    /\ UNCHANGED <<schema, run>>

AnchoredSearch ==
    /\ pc = "anchored"
    /\ LET it == AnchoredIteration(text, mode, search_start) IN
       IF it.over
       THEN /\ Finish(3, it.out)
            /\ UNCHANGED search_start
       ELSE /\ search_start' = it.cursor
            /\ consulted' = IF consulted[Len(consulted)] = 3 THEN consulted
                            ELSE Append(consulted, 3)
            /\ UNCHANGED <<pc, result, strategy>>
    /\ UNCHANGED <<text, mode, scan, span>>
    /\ UNCHANGED <<schema, run>>

TryAllObjects ==
    /\ pc = "objects"
    /\ Finish(4, EnumerateObjects(text, mode, 0, 0, -1))
    /\ UNCHANGED <<text, mode, search_start, scan, span>>
    /\ UNCHANGED <<schema, run>>

\* the final return None
ReturnNone ==
    /\ pc = "return_none"
    /\ pc' = "done"
    /\ result' = None
    /\ UNCHANGED <<text, mode, strategy, consulted, search_start, scan, span>>
    /\ UNCHANGED <<schema, run>>

Next ==
    \/ TryWholeText
    \/ TryFencedBlocks
    \/ AnchoredSearch
    \/ TryAllObjects
    \/ ReturnNone

Spec == Init /\ [][Next]_vars

\* before the call: no text given yet
InitCall ==
    /\ mode = NoneMode
    /\ text = <<>>
    /\ pc = "call"
    /\ result = None
    /\ strategy = 0
    /\ consulted = <<>>
    /\ search_start = 0
    /\ scan = ScanStart
    /\ span = None
    /\ SchemaAtRest
    /\ RunAtRest

\* extract_json_from_text(text, mode) is called
Call ==
    /\ pc = "call"
    /\ mode' \in Modes
    /\ text' \in Texts(mode')
    /\ pc' = "whole"
    /\ UNCHANGED <<result, strategy, consulted, search_start, scan, span>>
    /\ UNCHANGED <<schema, run>>

NextCall ==
    \/ Call
    \/ Next

\* the interpreter runs on: a while loop that can iterate does iterate.
\* This is WF_vars(AnchoredSearch) written out, the loop being able to
\* iterate exactly while control is in it
FairSpec ==
    /\ InitCall
    /\ [][NextCall]_vars
    /\ ([]<>(pc # "anchored") \/ []<><<AnchoredSearch>>_vars)

-----------------------------------------------------------------------------
(* extract_first_json_object as a state machine: one action per iteration  *)
(* of its for loop, one for its return.                                    *)

InitScan ==
    /\ text \in ScanTexts
    /\ mode = NoneMode
    /\ pc = "scan"
    /\ result = None
    /\ strategy = 0
    /\ consulted = <<>>
    /\ search_start = 0
    /\ scan = ScanStart
    /\ span = None
    /\ SchemaAtRest
    /\ RunAtRest

ScanCharacter ==
    /\ pc = "scan"
    /\ ~LoopOver(text, scan)
    /\ scan' = LoopBody(text, scan)
    /\ UNCHANGED <<text, mode, pc, result, strategy, consulted, search_start, span>>
    /\ UNCHANGED <<schema, run>>

ScanReturn ==
    /\ pc = "scan"
    /\ LoopOver(text, scan)
    /\ span' = ReturnValue(text, scan)
    /\ pc' = "returned"
    /\ UNCHANGED <<text, mode, result, strategy, consulted, search_start, scan>>
    /\ UNCHANGED <<schema, run>>

NextScan == ScanCharacter \/ ScanReturn

SpecScan == InitScan /\ [][NextScan]_vars

-----------------------------------------------------------------------------
(* validate_review_schema and create_fallback_review as a state machine:   *)
(* a run starts with a candidate to validate or with a reason to build a   *)
(* fallback from, and applies the functions to it.                         *)

MaxFindings == 2
MaxReasonLen == 2
MaxCalls == 2

Field(name, value) == <<<<name>>, value>>

\* the object d without the field name
Without(d, name) ==
    LET Keep(pair) == pair[1] # <<name>> IN PyDict(SelectSeq(d.v, Keep))

\* a list of the names as strings, and one string that holds the names
NamesList(names) == PyList([n \in 1..Len(names) |-> PyStr(<<names[n]>>)])
NamesStr(names) == PyStr(names)

Location ==
    PyDict(<<Field("absolute_file_path", PyStr(<<"x">>)),
             Field("line_range", PyInt(<<"1">>))>>)

Finding(code_location) ==
    PyDict(<<Field("title", PyStr(<<"x">>)),
             Field("body", PyStr(<<"x">>)),
             Field("confidence_score", PyInt(<<"1">>)),
             Field("code_location", code_location)>>)

\* the elements a findings list is made of: well-formed findings, findings
\* with a field missing, and elements or code locations that are no objects
FindingKinds ==
    { Finding(Location),
      Without(Finding(Location), "title"),
      Finding(Without(Location, "line_range")),
      Finding(PyInt(<<"1">>)),
      Finding(None),
      Finding(NamesList(<<"absolute_file_path", "line_range">>)),
      Finding(NamesStr(<<"absolute_file_path", "line_range">>)),
      PyInt(<<"1">>),
      None,
      NamesList(required_finding_fields),
      NamesStr(required_finding_fields) }

FindingsValues ==
    { PyList(items) :
        items \in UNION { [1..n -> FindingKinds] : n \in 0..MaxFindings } }
    \cup { PyInt(<<"1">>), None, PyStr(<<"x">>), PyDict(<<>>) }

CorrectnessValues ==
    { PyStr(<<"patch is correct">>), PyStr(<<"patch is incorrect">>),
      PyStr(<<"x">>), PyStr(<<"patch is correct", "x">>),
      PyInt(<<"1">>), None }

Review(findings, correctness) ==
    PyDict(<<Field("findings", findings),
             Field("overall_correctness", correctness),
             Field("overall_explanation", PyStr(<<"x">>)),
             Field("overall_confidence_score", PyInt(<<"1">>))>>)

\* the candidates: review objects, review objects with one required field
\* missing, and values that are no objects
Candidates ==
    LET reviews == { Review(f, c) : f \in FindingsValues,
                                    c \in CorrectnessValues }
    IN  reviews
        \cup { Without(r, required_fields[n]) :
                 r \in reviews, n \in 1..Len(required_fields) }
        \cup { NamesList(required_fields), NamesStr(required_fields),
               NamesList(mode_signatures["review"]),
               PyInt(<<"1">>), None, PyList(<<>>), PyDict(<<>>) }

ReasonAlphabet ==
    {"cannot extract JSON", "schema validation failed", "x", QUOTE, LF}

Reasons == UNION { [1..n -> ReasonAlphabet] : n \in 0..MaxReasonLen }

InitSchema ==
    /\ \/ /\ pc = "validate"
          /\ json_data \in Candidates
          /\ reason = <<>>
       \/ /\ pc = "fallback"
          /\ json_data = None
          /\ reason \in Reasons
    /\ valid = ""
    /\ fallback = None
    /\ calls = 0
    /\ RunAtRest
    /\ text = <<>>
    /\ mode = "review"
    /\ result = None
    /\ strategy = 0
    /\ consulted = <<>>
    /\ search_start = 0
    /\ scan = ScanStart
    /\ span = None

extraction == <<text, mode, result, strategy, consulted, search_start, scan, span>>

\* validate_review_schema(json_data)
Validate ==
    /\ pc = "validate"
    /\ valid' = validate_review_schema(json_data)
    /\ pc' = "validated"
    /\ UNCHANGED <<json_data, reason, fallback, calls, extraction, run>>

\* create_fallback_review(reason), once more with the same reason
CreateFallback ==
    /\ pc \in {"fallback", "created"}
    /\ calls < MaxCalls
    /\ fallback' = create_fallback_review(reason)
    /\ calls' = calls + 1
    /\ pc' = "created"
    /\ UNCHANGED <<json_data, valid, reason, extraction, run>>

\* validate_review_schema(create_fallback_review(reason))
ValidateFallback ==
    /\ pc = "created"
    /\ json_data' = fallback
    /\ valid' = validate_review_schema(fallback)
    /\ pc' = "validated"
    /\ UNCHANGED <<reason, fallback, calls, extraction, run>>

NextSchema == Validate \/ CreateFallback \/ ValidateFallback

SpecSchema == InitSchema /\ [][NextSchema]_vars

-----------------------------------------------------------------------------
(* The backend pipelines: what run_single_mode_analysis of claude_cr,      *)
(* codex_cr and copilot_cr, run_claude_analysis and run_codex_analysis do  *)
(* with the output of a subprocess that ended with exit code 0.  text is   *)
(* the raw output handed to extract_json_from_text, whose strategies run   *)
(* as the actions of Next between the call and its return.                 *)

MaxOutputParts == 2

ClaudeSingle == "claude_cr.run_single_mode_analysis"
CodexSingle == "codex_cr.run_single_mode_analysis"
CopilotSingle == "copilot_cr.run_single_mode_analysis"
ClaudeAnalysis == "claude_cr.run_claude_analysis"
CodexAnalysis == "codex_cr.run_codex_analysis"

SingleMode == {ClaudeSingle, CodexSingle, CopilotSingle}
Callers == SingleMode \cup {ClaudeAnalysis, CodexAnalysis}

\* a value written as JSON text without any whitespace
RECURSIVE Compact(_)
RECURSIVE CompactItems(_, _)
RECURSIVE CompactPairs(_, _)
CompactItems(items, n) ==
    IF n > Len(items) THEN <<>>
    ELSE (IF n > 1 THEN <<",">> ELSE <<>>) \o Compact(items[n])
         \o CompactItems(items, n + 1)
CompactPairs(pairs, n) ==
    IF n > Len(pairs) THEN <<>>
    ELSE (IF n > 1 THEN <<",">> ELSE <<>>)
         \o <<QUOTE>> \o encode_basestring(pairs[n][1]) \o <<QUOTE, ":">>
         \o Compact(pairs[n][2]) \o CompactPairs(pairs, n + 1)
Compact(o) ==
    IF o.t = "str" THEN <<QUOTE>> \o encode_basestring(o.v) \o <<QUOTE>>
    ELSE IF o.t = "NoneType" THEN <<"null">>
    ELSE IF o.t \in {"int", "float"} THEN o.v
    ELSE IF o.t = "list" THEN <<"[">> \o CompactItems(o.v, 1) \o <<"]">>
    ELSE <<"{">> \o CompactPairs(o.v, 1) \o <<"}">>

Correct == PyStr(<<"patch is correct">>)
Incorrect == PyStr(<<"patch is incorrect">>)

\* the review results a subprocess writes: valid ones, ones with a field
\* missing or a wrong value, ones with a finding or a code_location that is
\* no object, and a list of the required field names
ReviewOutputs ==
    { Review(PyList(<<>>), Correct),
      Review(PyList(<<Finding(Location)>>), Incorrect),
      Review(PyList(<<PyInt(<<"1">>)>>), Correct),
      Review(PyList(<<Finding(PyInt(<<"1">>))>>), Correct),
      Review(PyList(<<Finding(NamesList(<<"absolute_file_path",
                                          "line_range">>))>>), Correct),
      Review(PyList(<<>>), PyStr(<<"x">>)),
      Without(Review(PyList(<<>>), Correct), "overall_correctness"),
      Without(Review(PyList(<<>>), Correct), "overall_explanation"),
      NamesList(required_fields) }

OutputParts(m) ==
    { <<"x">>, <<"1">>, ObjectA(m), ObjectHalf(m), Fenced(ObjectF(m)),
      ObjectE(m) }
    \cup { Compact(r) : r \in ReviewOutputs }

\* the raw outputs: the empty text and up to MaxOutputParts pieces
Outputs(m) ==
    { Concat(pieces) :
        pieces \in UNION { [1..n -> OutputParts(m)] : n \in 0..MaxOutputParts } }

\* claude_cr: is_valid_for_mode
is_valid_for_mode(candidate, target_mode) == matches_mode(candidate, target_mode)

\* claude_cr: what the loop over the event stream leaves in
\* structured_output: None, or the input of a StructuredOutput tool call
\* (an object) that is not empty and valid for the mode
StructuredOutputs(m) ==
    {None} \cup
    { o \in {loads(ObjectA(m))} \cup ReviewOutputs :
        o.t = "dict" /\ Len(o.v) > 0 /\ is_valid_for_mode(o, m) = "True" }

\* bool(value) for the values of JSON
Truthy(value) ==
    IF value.t \in {"NoneType"} THEN FALSE ELSE value.v # <<>>

InitPipeline ==
    /\ caller \in Callers
    /\ mode \in DOMAIN mode_signatures
    /\ text \in Outputs(mode)
    /\ structured_output \in
          IF caller = ClaudeSingle THEN StructuredOutputs(mode) ELSE {None}
    /\ pc = "start"
    /\ ret = NoReturn
    /\ result_file = None
    /\ StreamAtRest
    /\ PoolAtRest
    /\ SchemaAtRest
    /\ result = None
    /\ strategy = 0
    /\ consulted = <<>>
    /\ search_start = 0
    /\ scan = ScanStart
    /\ span = None

\* the function ends by an exception: run_single_mode_analysis catches it
\* and returns (mode, result_filename, False, str(e)), the other functions
\* let it propagate
Raise(exception) ==
    /\ ret' = [kind |-> IF caller \in SingleMode THEN "tuple" ELSE "raise",
               success |-> FALSE, result |-> <<exception>>]
    /\ pc' = "end"
    /\ UNCHANGED result_file

\* the function ends with the result string: run_single_mode_analysis
\* writes it to the result file and returns (mode, result_filename, True,
\* result), the other functions return it
Emit(out) ==
    /\ ret' = [kind |-> IF caller \in SingleMode THEN "tuple" ELSE "str",
               success |-> TRUE, result |-> out]
    /\ result_file' = IF caller \in SingleMode THEN PyStr(out) ELSE result_file
    /\ pc' = "end"

\* the call of extract_json_from_text(raw_output, mode); claude_cr's
\* run_single_mode_analysis makes it only when the stored structured
\* output is missing or not valid for the mode
CallExtraction ==
    /\ pc = "start"
    /\ LET stored == IF caller = ClaudeSingle /\ structured_output # None
                        /\ Len(structured_output.v) > 0
                     THEN structured_output ELSE None
       IN  /\ json_data' = stored
           /\ pc' = IF stored = None \/ is_valid_for_mode(stored, mode) # "True"
                    THEN "whole" ELSE "decide"
    /\ UNCHANGED <<valid, reason, fallback, calls, extraction, run>>

\* the return of extract_json_from_text
ExtractionReturns ==
    /\ pc = "done"
    /\ IF IsException(result)
       THEN /\ Raise(result.t)
            /\ UNCHANGED json_data
       ELSE /\ json_data' =
                 IF caller = ClaudeSingle
                 THEN (IF Truthy(result) /\ is_valid_for_mode(result, mode) = "True"
                       THEN result ELSE json_data)
                 ELSE result
            /\ pc' = "decide"
            /\ UNCHANGED <<ret, result_file>>
    /\ UNCHANGED <<valid, reason, fallback, calls, extraction, caller,
                   structured_output, stream, pool>>

\* the test of the first branch: json_data is None (claude_cr's
\* run_single_mode_analysis: or an empty dict)
NoCandidate ==
    \/ json_data = None
    \/ caller = ClaudeSingle /\ json_data = PyDict(<<>>)

\* no candidate: the fallback review in review mode; in the other modes the
\* raw output (claude_cr's run_single_mode_analysis: an empty object)
SubstituteForMissing ==
    /\ pc = "decide"
    /\ NoCandidate
    /\ IF mode = "review"
       THEN /\ reason' = CannotExtract
            /\ fallback' = create_fallback_review(CannotExtract)
            /\ calls' = calls + 1
            /\ Emit(format_json(create_fallback_review(CannotExtract)))
       ELSE /\ Emit(IF caller = ClaudeSingle THEN format_json(PyDict(<<>>))
                    ELSE text)
            /\ UNCHANGED <<reason, fallback, calls>>
    /\ UNCHANGED <<json_data, valid, extraction, caller, structured_output, stream, pool>>

\* review mode with a candidate, without the validation: the candidate is
\* formatted as it is
TrustCandidate ==
    /\ pc = "decide"
    /\ ~NoCandidate
    /\ mode = "review"
    /\ valid' = "True"
    /\ Emit(format_json(json_data))
    /\ UNCHANGED <<json_data, reason, fallback, calls, extraction, caller,
                   structured_output, stream, pool>>

\* review mode with a candidate: validate_review_schema decides between
\* the candidate and the fallback review
ValidateCandidate ==
    /\ pc = "decide"
    /\ ~NoCandidate
    /\ mode = "review"
    /\ valid' = validate_review_schema(json_data)
    /\ IF valid' = "True"
       THEN /\ Emit(format_json(json_data))
            /\ UNCHANGED <<reason, fallback, calls>>
       ELSE IF valid' = "False"
       THEN /\ reason' = SchemaFailed
            /\ fallback' = create_fallback_review(SchemaFailed)
            /\ calls' = calls + 1
            /\ Emit(format_json(create_fallback_review(SchemaFailed)))
       ELSE /\ Raise(valid')
            /\ UNCHANGED <<reason, fallback, calls>>
    /\ UNCHANGED <<json_data, extraction, caller, structured_output, stream, pool>>

\* the other modes with a candidate: the candidate is formatted
FormatCandidate ==
    /\ pc = "decide"
    /\ ~NoCandidate
    /\ mode # "review"
    /\ Emit(format_json(json_data))
    /\ UNCHANGED <<schema, extraction, caller, structured_output, stream, pool>>

NextPipeline ==
    \/ CallExtraction
    \/ Next
    \/ ExtractionReturns
    \/ SubstituteForMissing
    \/ ValidateCandidate
    \/ FormatCandidate

SpecPipeline == InitPipeline /\ [][NextPipeline]_vars

-----------------------------------------------------------------------------
(* What the specification says of the scanner, stated on the text alone.   *)

\* the number of backslashes directly before index k
RECURSIVE BackslashRun(_, _)
BackslashRun(s, k) ==
    IF At(s, k - 1) = BACKSLASH THEN 1 + BackslashRun(s, k - 1) ELSE 0

\* index k lies inside a double-quoted string: an odd number of quotes that
\* open or close a string precede it; a quote inside a string closes it
\* unless an odd number of backslashes directly precedes it
RECURSIVE InString(_, _)
InString(s, k) ==
    IF k <= 0 THEN FALSE
    ELSE LET before == InString(s, k - 1) IN
         IF At(s, k - 1) = QUOTE /\ ~(before /\ BackslashRun(s, k - 1) % 2 = 1)
         THEN ~before ELSE before

\* the character c stands at index k outside every string
OutsideBrace(s, k, c) == At(s, k) = c /\ ~InString(s, k)

\* opening minus closing braces outside strings in s[a..b]
Net(s, a, b) ==
    Cardinality({k \in a..b : OutsideBrace(s, k, "{")})
        - Cardinality({k \in a..b : OutsideBrace(s, k, "}")})

\* the index of the brace that closes the one at a, or -1
MatchOf(s, a) ==
    LET ends == {b \in a..(Len(s) - 1) : Net(s, a, b) = 0}
    IN  IF ends = {} THEN -1 ELSE CHOOSE b \in ends : \A e \in ends : b <= e

\* the span of the first opening brace outside strings that has a matching
\* closing brace, or None
FirstBalanced(s) ==
    LET starts == {a \in 0..(Len(s) - 1) :
                      OutsideBrace(s, a, "{") /\ MatchOf(s, a) # -1}
        first == CHOOSE a \in starts : \A b \in starts : a <= b
    IN  IF starts = {} THEN None
        ELSE PyStr(Slice(s, first, MatchOf(s, first) + 1))

\* C6: extract_first_json_object returns exactly the span of the first
\* opening brace outside strings that has a matching closing brace, and None
\* only when there is no such span; an unmatched closing brace before the
\* object does not matter.
ScannerReturnsFirstBalanced == pc = "returned" => span = FirstBalanced(text)

\* C7: in a step of the scanner, brace_count changes only on a brace read
\* outside strings; a brace inside a string leaves it alone; inside a string
\* a quote after an odd run of backslashes keeps the string open and a quote
\* after an even run (an escaped backslash) closes it; the in_string flag is
\* the string state of the text at the index read.
ScannerTracksStrings ==
    [][ScanCharacter =>
        LET char == At(text, scan.i) IN
        /\ scan.in_string = InString(text, scan.i)
        /\ scan'.brace_count # scan.brace_count
              => char \in {"{", "}"} /\ ~scan.in_string
        /\ (InString(text, scan.i) /\ char \in {"{", "}"})
              => scan'.brace_count = scan.brace_count
        /\ (scan.in_string /\ char = QUOTE
                /\ BackslashRun(text, scan.i) % 2 = 1) => scan'.in_string
        /\ (scan.in_string /\ char = QUOTE
                /\ BackslashRun(text, scan.i) % 2 = 0) => ~scan'.in_string
    ]_vars

\* C7 witness: the scan has passed an escaped quote inside a string, an
\* escaped backslash before the closing quote and a brace inside the string,
\* and its depth is still 0
ScannerPassedEscapes ==
    /\ pc = "scan"
    /\ scan.i = Len(text)
    /\ scan.brace_count = 0
    /\ ~scan.in_string
    /\ \E j \in 0..(Len(text) - 1) :
          /\ At(text, j) = QUOTE /\ InString(text, j) /\ InString(text, j + 1)
          /\ \E k \in (j + 1)..(Len(text) - 1) :
                At(text, k) \in {"{", "}"} /\ InString(text, k)
    /\ At(text, Len(text) - 1) = QUOTE
    /\ BackslashRun(text, Len(text) - 1) = 2

\* the unterminated string of s, when it has one, was opened inside the
\* first object of s, which is still open there
UnterminatedInObject(s) ==
    /\ InString(s, Len(s))
    /\ \E q \in 0..(Len(s) - 1) :
          /\ At(s, q) = QUOTE /\ ~InString(s, q)
          /\ \A k \in (q + 1)..Len(s) : InString(s, k)
          /\ \E a \in 0..(q - 1) :
                /\ OutsideBrace(s, a, "{")
                /\ \A b \in 0..(a - 1) : ~OutsideBrace(s, b, "{")
                /\ \A b \in a..q : Net(s, a, b) >= 1

\* s[a..e] is an object of s that lies in no other object of s
Outermost(s, a, e) ==
    /\ OutsideBrace(s, a, "{")
    /\ MatchOf(s, a) = e
    /\ ~\E b \in 0..(a - 1) : OutsideBrace(s, b, "{") /\ MatchOf(s, b) > e

\* C8: extract_first_json_object returns None for a text without an opening
\* brace, None when a string opened inside the object is never terminated,
\* and a returned span ends at the brace that closes the outermost object,
\* never at the closing brace of a nested one.
ScannerEdgeCases ==
    pc = "returned" =>
        /\ (\A k \in 0..(Len(text) - 1) : At(text, k) # "{") => span = None
        /\ UnterminatedInObject(text) => span = None
        /\ span # None => Outermost(text, scan.start_idx, scan.i)

-----------------------------------------------------------------------------
(* What the specification says of the extraction chain.                    *)

\* the Schema Matcher of the specification: an object with every field of
\* the signature of the mode as a top-level key (any object without a mode)
ModeMatched(v, m) ==
    /\ v.t = "dict"
    /\ m \in DOMAIN mode_signatures =>
          \A n \in 1..Len(mode_signatures[m]) :
              <<mode_signatures[m][n]>> \in Keys(v)

\* the candidate v is one the chain accepts for mode m
Accepted(v, m) ==
    /\ ~IsException(v)
    /\ m = NoneMode \/ matches_mode(v, m) = "True"

\* the first fenced block, in source order, that parses and is accepted
FirstAcceptedBlock(s, m) ==
    LET blocks == json_blocks(s, 0)
        good == {n \in 1..Len(blocks) : Accepted(loads(blocks[n]), m)}
    IN  IF good = {} THEN Continue
        ELSE Return(loads(blocks[CHOOSE n \in good : \A g \in good : n <= g]))

\* the while loop of the mode-anchored search, run to its end
RECURSIVE AnchoredLoop(_, _, _)
AnchoredLoop(s, m, cursor) ==
    LET it == AnchoredIteration(s, m, cursor) IN
    IF it.over THEN it.out ELSE AnchoredLoop(s, m, it.cursor)

\* what strategy n yields on its own: a mode-matched candidate or nothing
Yield(n, s, m) ==
    IF n = 1 THEN (IF Accepted(loads(s), m) THEN Return(loads(s)) ELSE Continue)
    ELSE IF n = 2 THEN FirstAcceptedBlock(s, m)
    ELSE IF n = 3 THEN (IF m \in DOMAIN mode_signatures
                        THEN AnchoredLoop(s, m, 0) ELSE Continue)
    ELSE EnumerateObjects(s, m, 0, 0, -1)

\* the strategies consulted when strategy n is the one that returns
ConsultedUpTo(n, m) ==
    IF n = 1 THEN <<1>>
    ELSE IF n = 2 THEN <<1, 2>>
    ELSE IF m \in DOMAIN mode_signatures
         THEN (IF n = 3 THEN <<1, 2, 3>> ELSE <<1, 2, 3, 4>>)
         ELSE <<1, 2, 4>>

\* C1: the chain returns the candidate of the earliest strategy, in the
\* order whole text, fenced blocks, anchored search, enumeration, that
\* yields a mode-matched candidate, and consults no later strategy; so a
\* matching fenced block wins over a matching unfenced object before it.
EarliestStrategyWins ==
    pc = "done" =>
        \A n \in 1..4 :
            (Yield(n, text, mode).done
                /\ \A k \in 1..(n - 1) : ~Yield(k, text, mode).done)
            => /\ result = Yield(n, text, mode).value
               /\ strategy = n
               /\ consulted = ConsultedUpTo(n, mode)

\* C2: for a text made of two concatenated objects that each match the
\* signature of the requested mode, the chain returns the first one.
FirstOfTwoObjectsWins ==
    (pc = "done" /\ mode \in DOMAIN mode_signatures) =>
        \A k \in 1..(Len(text) - 1) :
            (/\ At(text, k - 1) = "}" /\ At(text, k) = "{"
             /\ ModeMatched(loads(Slice(text, 0, k)), mode)
             /\ ModeMatched(loads(Slice(text, k, Len(text))), mode))
            => result = loads(Slice(text, 0, k))

\* characters of prose
Prose == {"x", " ", LF}

\* s without the prose before and after it
StripProse(s) ==
    LET solid == {k \in 0..(Len(s) - 1) : At(s, k) \notin Prose} IN
    IF solid = {} THEN <<>>
    ELSE Slice(s, CHOOSE a \in solid : \A b \in solid : a <= b,
                  (CHOOSE a \in solid : \A b \in solid : a >= b) + 1)

\* the object d has a string value that holds a brace
HasBraceInString(d) ==
    \E n \in 1..Len(d.v) :
        /\ d.v[n][2].t = "str"
        /\ \E j \in 1..Len(d.v[n][2].v) : d.v[n][2].v[j] \in {"{", "}"}

\* C3: for a text that holds, alone or surrounded by prose, one object
\* acceptable for the mode whose string values hold braces, the chain
\* returns that object, the strings unchanged.
BraceInStringRecovered ==
    pc = "done" =>
        LET v == loads(StripProse(text)) IN
        (ModeMatched(v, mode) /\ HasBraceInString(v)) => result = v

\* C4: the chain ends by returning an object or None; it never raises.
NeverRaises == pc = "done" => ~IsException(result)

\* C5: a value the chain returns is None or an object, never a list, a
\* string or a number.
ReturnsObjectOrNone ==
    (pc = "done" /\ ~IsException(result)) => result.t \in {"NoneType", "dict"}

\* C9: for a known mode, matches_mode is true of the parsed text exactly
\* when it is an object with every field of the signature as a key; without
\* a mode it is true of every value.
MatcherTestsTopLevelKeys ==
    (consulted # <<>> /\ ~IsException(loads(text))) =>
        IF mode \in DOMAIN mode_signatures
        THEN (matches_mode(loads(text), mode) = "True")
                <=> ModeMatched(loads(text), mode)
        ELSE matches_mode(loads(text), mode) = "True"

\* C10: when the whole text is not mode-matched JSON and a fenced block
\* parses and mode-matches, the chain returns the first such block in source
\* order, whatever precedes it.
FirstMatchingBlockReturned ==
    (/\ pc = "done"
     /\ ~Accepted(loads(text), mode)
     /\ FirstAcceptedBlock(text, mode).done)
    => result = FirstAcceptedBlock(text, mode).value

\* C11: a text that is exactly one well-formed object matching the mode's
\* signature is returned as that object, and parsing format_json of the
\* returned object again gives the same keys and values.
SingleObjectRoundTrip ==
    (/\ pc = "done"
     /\ loads(text).t = "dict"
     /\ ModeMatched(loads(text), mode))
    => /\ result = loads(text)
       /\ loads(format_json(result)) = result

\* a single matching object with an escaped character in a string was
\* returned by the first strategy
SingleObjectReturned ==
    /\ pc = "done"
    /\ strategy = 1
    /\ mode \in DOMAIN mode_signatures
    /\ ModeMatched(loads(text), mode)
    /\ \E n \in 1..Len(result.v) :
          /\ result.v[n][2].t = "str"
          /\ QUOTE \in {result.v[n][2].v[j] : j \in 1..Len(result.v[n][2].v)}

\* the text holds no JSON at all: it does not parse as a whole, no fenced
\* json block of it parses, and no span from an opening to a closing brace
\* parses
NoJSON(s) ==
    /\ loads(s) = JSONDecodeError
    /\ \A n \in 1..Len(json_blocks(s, 0)) :
          loads(json_blocks(s, 0)[n]) = JSONDecodeError
    /\ \A a \in 0..(Len(s) - 1) : \A b \in a..(Len(s) - 1) :
          (At(s, a) = "{" /\ At(s, b) = "}")
              => loads(Slice(s, a, b + 1)) = JSONDecodeError

HasFields(v, names) ==
    /\ v.t = "dict"
    /\ \A n \in 1..Len(names) : <<names[n]>> \in Keys(v)

SchemaHolds(d) ==
    /\ HasFields(d, required_fields)
    /\ GetItem(d, "findings").t = "list"
    /\ \A n \in 1..Len(GetItem(d, "findings").v) :
          LET element == GetItem(d, "findings").v[n] IN
          /\ HasFields(element, required_finding_fields)
          /\ HasFields(GetItem(element, "code_location"),
                       <<"absolute_file_path", "line_range">>)
    /\ GetItem(d, "overall_correctness")
          \in {PyStr(<<"patch is correct">>), PyStr(<<"patch is incorrect">>)}

\* C13: validate_review_schema returns true exactly when the candidate
\* satisfies the schema: required fields present, findings a sequence whose
\* elements have their fields, every code_location with its two fields,
\* overall_correctness one of the two recognized strings.
ValidatorDecidesSchema ==
    (pc = "validated" /\ calls = 0)
    => ((valid = "True") <=> SchemaHolds(json_data))

\* the sequence sub occurs in s as a contiguous part
Embeds(s, sub) ==
    \E k \in 0..(Len(s) - Len(sub)) : Slice(s, k, k + Len(sub)) = sub

\* C16: for every reason, create_fallback_review returns an object with
\* findings = [], overall_correctness = "patch is correct",
\* overall_confidence_score = 0.0 and an overall_explanation that embeds
\* the reason; a second call with the same reason returns an equal object.
FallbackDependsOnlyOnReason ==
    /\ [](pc = "created" =>
            /\ HasFields(fallback, required_fields)
            /\ Len(fallback.v) = Len(required_fields)
            /\ GetItem(fallback, "findings") = PyList(<<>>)
            /\ GetItem(fallback, "overall_correctness")
                  = PyStr(<<"patch is correct">>)
            /\ GetItem(fallback, "overall_confidence_score")
                  = PyFloat(<<"0", ".", "0">>)
            /\ GetItem(fallback, "overall_explanation").t = "str"
            /\ Embeds(GetItem(fallback, "overall_explanation").v, reason))
    /\ [][(pc = "created" /\ pc' = "created") => fallback' = fallback]_vars

\* a fallback was built twice from a reason that is not empty
FallbackBuiltTwice ==
    /\ pc = "created"
    /\ calls = 2
    /\ reason # <<>>
    /\ fallback # None

\* C17: for every reason, validate_review_schema is true of the object
\* create_fallback_review returns.
FallbackIsSchemaValid ==
    (pc = "validated" /\ calls > 0)
    => /\ json_data = create_fallback_review(reason)
       /\ valid = "True"

\* the fallback of a reason that holds a quote was validated
FallbackValidated ==
    /\ pc = "validated"
    /\ calls > 0
    /\ \E n \in 1..Len(reason) : reason[n] = QUOTE
    /\ json_data = fallback
    /\ valid # ""

\* C14: validate_review_schema returns a boolean for every object that
\* extraction returns in review mode; it never raises, also when an element
\* of findings or a code_location is not an object.
ValidatorNeverRaises ==
    (/\ mode = "review"
     /\ strategy > 0
     /\ json_data = result
     /\ json_data.t = "dict"
     /\ valid # "")
    => valid \in {"True", "False"}

\* the fallback texts a pipeline can emit
FallbackTexts ==
    { format_json(create_fallback_review(r)) : r \in {CannotExtract, SchemaFailed} }

\* the raw output is exactly one object without the key overall_correctness
LacksCorrectness(s) ==
    /\ loads(s).t = "dict"
    /\ <<"overall_correctness">> \notin Keys(loads(s))

\* C15 as stated: for a review-mode output that is an object lacking
\* overall_correctness, extraction returns that object,
\* validate_review_schema returns false on it and the pipeline emits the
\* fallback result.
MissingCorrectnessFailsValidation ==
    (/\ pc = "end"
     /\ mode = "review"
     /\ structured_output = None
     /\ LacksCorrectness(text))
    => /\ result = loads(text)
       /\ valid = "False"
       /\ ret.success
       /\ ret.result \in FallbackTexts

\* the text holds no fence and no brace but one opening brace
Plain(s) ==
    /\ \A k \in 0..(Len(s) - 1) : At(s, k) # FENCE
    /\ Cardinality({k \in 0..(Len(s) - 1) : At(s, k) = "{"}) = 1

\* C15 amended: for a review-mode output that is one plain object lacking
\* overall_correctness, extraction returns None (the object does not match
\* the review signature), validate_review_schema is not called, and the
\* pipeline emits the fallback result built for the failed extraction.
MissingCorrectnessFailsExtraction ==
    (/\ pc = "end"
     /\ mode = "review"
     /\ structured_output = None
     /\ LacksCorrectness(text)
     /\ Plain(text))
    => /\ result = None
       /\ consulted = <<1, 2, 3, 4>>
       /\ valid = ""
       /\ ret.success
       /\ ret.result = format_json(create_fallback_review(CannotExtract))

\* a review run on an object with the other three required fields ended
MissingCorrectnessRun ==
    /\ pc = "end"
    /\ mode = "review"
    /\ structured_output = None
    /\ LacksCorrectness(text)
    /\ Plain(text)
    /\ {<<"findings">>, <<"overall_explanation">>,
        <<"overall_confidence_score">>} \subseteq Keys(loads(text))
    /\ ret.success

\* C18: in review mode, a result a backend pipeline produces is
\* format_json of an object validate_review_schema accepts: the candidate
\* unchanged when there is one and validation passed, the fallback result
\* in every other case.
ReviewResultIsValidated ==
    (pc = "end" /\ mode = "review" /\ ret.success)
    => IF json_data # None /\ validate_review_schema(json_data) = "True"
       THEN ret.result = format_json(json_data)
       ELSE /\ ret.result \in FallbackTexts
            /\ ret.result = format_json(fallback)
            /\ validate_review_schema(fallback) = "True"
            /\ json_data = None <=> reason = CannotExtract

\* a review run ended with the extracted candidate, which holds a finding
ReviewCandidateEmitted ==
    /\ pc = "end"
    /\ mode = "review"
    /\ ret.success
    /\ json_data = result
    /\ strategy > 0
    /\ valid = "True"
    /\ GetItem(json_data, "findings") # PyList(<<>>)
    /\ ret.result = format_json(json_data)

\* C19: in analyze and priority mode, when extraction returns None,
\* run_single_mode_analysis of each backend passes the raw output on as the
\* result of the mode and builds no object.
RawTextPropagated ==
    (/\ pc = "end"
     /\ mode # "review"
     /\ caller \in SingleMode
     /\ consulted # <<>>
     /\ result = None)
    => /\ ret.success
       /\ ret.result = text
       /\ result_file = PyStr(text)

\* extraction or validation failed in the run
RunFailed ==
    \/ consulted # <<>> /\ (result = None \/ IsException(result))
    \/ valid \notin {"", "True"}

\* C20: for every mode and output on which extraction or validation fails,
\* the persisted result is not empty (no empty text, no empty object) and
\* states the reason of the failure.  Stated of the runs that end with a
\* result; a run that ends by an exception persists nothing.
FailureIsReported ==
    (pc = "end" /\ caller \in SingleMode /\ RunFailed /\ ret.success)
    => /\ result_file # None
       /\ result_file.v \notin {<<>>, <<"{", "}">>}
       /\ \/ Embeds(result_file.v, CannotExtract)
          \/ Embeds(result_file.v, SchemaFailed)

\* the top-level balanced objects of s, by the depth tracking of the
\* scanner (braces inside strings not counted, a closing brace at depth 0
\* passed over): the first and last index of every span from an opening
\* brace read at depth 0 to the closing brace that ends it
RECURSIVE DepthObjects(_, _, _, _)
DepthObjects(s, i, depth, start) ==
    IF i >= Len(s) THEN {}
    ELSE IF OutsideBrace(s, i, "{")
    THEN DepthObjects(s, i + 1, depth + 1, IF depth = 0 THEN i ELSE start)
    ELSE IF OutsideBrace(s, i, "}")
    THEN IF depth = 0 THEN DepthObjects(s, i + 1, 0, start)
         ELSE IF depth = 1
         THEN {<<start, i>>} \cup DepthObjects(s, i + 1, 0, start)
         ELSE DepthObjects(s, i + 1, depth - 1, start)
    ELSE DepthObjects(s, i + 1, depth, start)

TopLevelObjects(s) == DepthObjects(s, 0, 0, -1)

\* the value v matches the signature of some known mode
MatchesKnownMode(v) == \E m \in DOMAIN mode_signatures : ModeMatched(v, m)

\* the values of the top-level objects of s that parse
EnumeratedValues(s) ==
    { loads(Slice(s, obj[1], obj[2] + 1)) : obj \in TopLevelObjects(s) }
        \ {JSONDecodeError}

\* C23: without a mode, when the enumeration returns, it returns an object
\* matching some known signature whenever an enumerated top-level object
\* matches one; an object matching none is returned only when no
\* enumerated object matches a known signature.
EnumerationPrefersKnownModes ==
    (/\ pc = "done"
     /\ mode = NoneMode
     /\ strategy = 4
     /\ \E v \in EnumeratedValues(text) : MatchesKnownMode(v))
    => MatchesKnownMode(result)

\* C24: when the chain comes to the enumeration and a top-level balanced
\* object of the text parses and is accepted for the mode, the enumeration
\* returns such an object (the leftmost one for a known mode): no earlier
\* obj that fails and no unmatched closing brace keeps it from being tried.
EnumerationTriesEveryObject ==
    (pc = "done" /\ consulted # <<>> /\ consulted[Len(consulted)] = 4)
    => LET good == { obj \in TopLevelObjects(text) :
                       Accepted(loads(Slice(text, obj[1], obj[2] + 1)), mode) }
           first == CHOOSE obj \in good : \A other \in good : obj[1] <= other[1]
       IN  good # {} =>
             IF mode \in DOMAIN mode_signatures
             THEN result = loads(Slice(text, first[1], first[2] + 1))
             ELSE result \in { loads(Slice(text, obj[1], obj[2] + 1)) :
                                 obj \in good }

\* C25: an iteration of the mode-anchored search that stays in the loop
\* moves the cursor just past the occurrence it examined, which lies at or
\* after the old cursor, so the cursor strictly increases, stays within the
\* text length plus one and no occurrence is examined twice; the loop is
\* left in the end.
AnchoredSearchTerminates ==
    /\ [][(AnchoredSearch /\ pc' = "anchored") =>
            LET pos1 == Find(text, <<QUOTE, mode_signatures[mode][1], QUOTE>>,
                             search_start)
            IN  /\ pos1 >= search_start
                /\ search_start' = pos1 + 1
                /\ search_start' > search_start
                /\ search_start' <= Len(text) + 1]_vars
    /\ (pc = "anchored") ~> (pc # "anchored")

\* the loop examined a second occurrence of the field
AnchoredSearchIterated ==
    /\ pc = "anchored"
    /\ search_start > 0
    /\ Find(text, <<QUOTE, mode_signatures[mode][1], QUOTE>>, search_start) # -1

\* C26: a value the chain returns for a known mode was accepted by
\* matches_mode for that mode, whichever strategy returned it.
ReturnedValueMatchesMode ==
    (/\ pc = "done"
     /\ mode \in DOMAIN mode_signatures
     /\ ~IsException(result)
     /\ result # None)
    => /\ strategy \in 1..4
       /\ matches_mode(result, mode) = "True"

\* a later strategy, the anchored search, returned an object for a known mode
AnchoredSearchReturnedMatch ==
    /\ pc = "done"
    /\ mode \in DOMAIN mode_signatures
    /\ strategy = 3
    /\ result.t = "dict"

-----------------------------------------------------------------------------
(* Formatting, on the results the backends pass to format_json.            *)

\* the result string of the run came out of format_json: every result but
\* the raw output that stands for a missing candidate outside review mode
Formatted ==
    /\ pc = "end"
    /\ ret.success
    /\ ~(mode # "review" /\ json_data = None)

\* C22: formatting is idempotent: the formatted result of a run, parsed
\* again and formatted again, is the same text, for every candidate the
\* extraction returns and for the fallback review.
FormatIsIdempotent ==
    Formatted => format_json(loads(ret.result)) = ret.result

\* a candidate with escapes and a float was formatted, to another text
\* than the one it was written as
EscapedCandidateFormatted ==
    /\ Formatted
    /\ json_data = loads(ObjectE(mode))
    /\ ret.result = format_json(json_data)
    /\ ret.result # ObjectE(mode)

-----------------------------------------------------------------------------
(* claude_cr's run_single_mode_analysis from the first line of the event   *)
(* stream on.  The lines of process.stdout are what stream-json writes:    *)
(* one JSON object a line, or a line that is not JSON.                     *)

MaxEvents == 3

\* the string literal the subprocess writes for the characters chars
JSONString(chars) == <<QUOTE>> \o encode_basestring(chars) \o <<QUOTE>>

\* the texts of items, with commas between them
RECURSIVE Joined(_)
Joined(items) ==
    IF items = <<>> THEN <<>>
    ELSE IF Len(items) = 1 THEN items[1]
    ELSE items[1] \o <<",">> \o Joined(Tail(items))

\* {"type":"tool_use","name":tool_name,"input":tool_input}
ToolUse(tool_name, tool_input) ==
    <<"{">> \o Quoted("type") \o <<":">> \o Quoted("tool_use") \o <<",">>
            \o Quoted("name") \o <<":">> \o Quoted(tool_name) \o <<",">>
            \o Quoted("input") \o <<":">> \o tool_input \o <<"}">>

\* {"type":"assistant","message":{"content":[items]}} and the line feed
AssistantLine(items) ==
    <<"{">> \o Quoted("type") \o <<":">> \o Quoted("assistant") \o <<",">>
            \o Quoted("message") \o <<":", "{">> \o Quoted("content")
            \o <<":", "[">> \o Joined(items) \o <<"]", "}", "}", LF>>

\* {"type":"result","result":"chars"} and the line feed
ResultLine(chars) ==
    <<"{">> \o Quoted("type") \o <<":">> \o Quoted("result") \o <<",">>
            \o Quoted("result") \o <<":">> \o JSONString(chars)
            \o <<"}", LF>>

\* the lines of a stream in mode m: a line that is not JSON; StructuredOutput
\* calls with a valid input, with a second valid input followed by an empty
\* one, with an input that lacks a field; another tool's call; result
\* events with an object, with a text without JSON, with the empty text
Lines(m) ==
    { <<"x", LF>>,
      AssistantLine(<<ToolUse("StructuredOutput", ObjectA(m))>>),
      AssistantLine(<<ToolUse("StructuredOutput", ObjectF(m)),
                      ToolUse("StructuredOutput", <<"{", "}">>)>>),
      AssistantLine(<<ToolUse("StructuredOutput", ObjectHalf(m))>>),
      AssistantLine(<<ToolUse("Read", ObjectB(m))>>),
      ResultLine(ObjectS(m)),
      ResultLine(<<"x">>),
      ResultLine(<<>>) }

Streams(m) == UNION { [1..n -> Lines(m)] : n \in 0..MaxEvents }

\* d.get(key, default) of a dict d
Get(d, key, default) ==
    IF <<key>> \in Keys(d) THEN GetItem(d, key) ELSE default

\* line.strip()
RECURSIVE Strip(_)
Strip(line) ==
    IF line = <<>> THEN line
    ELSE IF Head(line) \in Whitespace THEN Strip(Tail(line))
    ELSE IF line[Len(line)] \in Whitespace
    THEN Strip(SubSeq(line, 1, Len(line) - 1))
    ELSE line

\* one section of raw_output.txt: the three writes of the header, the
\* write of the raw output
Header(m) == [mode |-> m, part |-> "header"]
Body(m) == [mode |-> m, part |-> "body"]

\* ToolCalls without the test of the input: every StructuredOutput call
\* is stored
RECURSIVE ToolCallsUntested(_, _, _, _)
ToolCallsUntested(content, n, m, stored) ==
    IF n > Len(content) THEN stored
    ELSE LET item == content[n]
             tool_name == Get(item, "name", PyStr(<<"unknown">>))
             tool_input == Get(item, "input", PyDict(<<>>))
         IN  IF /\ Get(item, "type", None) = PyStr(<<"tool_use">>)
                /\ tool_name = PyStr(<<"StructuredOutput">>)
             THEN ToolCallsUntested(content, n + 1, m, tool_input)
             ELSE ToolCallsUntested(content, n + 1, m, stored)

\* the for loop over the content of an assistant event, from item n on:
\* what structured_output holds after it
RECURSIVE ToolCalls(_, _, _, _)
ToolCalls(content, n, m, stored) ==
    IF n > Len(content) THEN stored
    ELSE LET item == content[n]
             tool_name == Get(item, "name", PyStr(<<"unknown">>))
             tool_input == Get(item, "input", PyDict(<<>>))
         IN  IF /\ Get(item, "type", None) = PyStr(<<"tool_use">>)
                /\ tool_name = PyStr(<<"StructuredOutput">>)
                /\ Truthy(tool_input)
                /\ Len(tool_input.v) > 0
                /\ is_valid_for_mode(tool_input, m) = "True"
             THEN ToolCalls(content, n + 1, m, tool_input)
             ELSE ToolCalls(content, n + 1, m, stored)

InitStream ==
    /\ caller = ClaudeSingle
    /\ mode \in DOMAIN mode_signatures
    /\ events \in Streams(mode)
    /\ raw_output_lines = <<>>
    /\ final_result = None
    /\ structured_output = None
    /\ text = <<>>
    /\ pc = "read"
    /\ ret = NoReturn
    /\ result_file = None
    /\ PoolAtRest
    /\ SchemaAtRest
    /\ result = None
    /\ strategy = 0
    /\ consulted = <<>>
    /\ search_start = 0
    /\ scan = ScanStart
    /\ span = None

\* one iteration of the loop over process.stdout
ReadLine ==
    /\ pc = "read"
    /\ events # <<>>
    /\ LET line == Head(events)
           event == loads(Strip(line))
           event_type == Get(event, "type", None)
       IN  /\ raw_output_lines' = Append(raw_output_lines, line)
           /\ events' = Tail(events)
           /\ IF event.t = "JSONDecodeError"
              THEN UNCHANGED <<structured_output, final_result>>
              ELSE IF event_type = PyStr(<<"assistant">>)
              THEN /\ structured_output' =
                        ToolCalls(Get(Get(event, "message", PyDict(<<>>)),
                                      "content", PyList(<<>>)).v,
                                  1, mode, structured_output)
                   /\ UNCHANGED final_result
              ELSE IF event_type = PyStr(<<"result">>)
              THEN /\ final_result' = Get(event, "result", PyStr(<<>>))
                   /\ UNCHANGED structured_output
              ELSE UNCHANGED <<structured_output, final_result>>
    /\ UNCHANGED <<pc, extraction, schema, caller, ret, result_file, pool>>

\* the stream is over: process.wait(), the test of the return code, the
\* section appended to raw_output.txt, the text to extract the candidate from
EndOfStream ==
    /\ pc = "read"
    /\ events = <<>>
    /\ \E returncode \in {0, 1} :
          IF returncode # 0
          THEN /\ Raise("Exception")
               /\ UNCHANGED <<text, raw_output_file>>
          ELSE /\ raw_output_file' =
                     raw_output_file \o <<Header(mode), Body(mode)>>
               /\ text' = IF Truthy(final_result) THEN final_result.v
                          ELSE Concat(raw_output_lines)
               /\ pc' = "start"
               /\ UNCHANGED <<ret, result_file>>
    /\ UNCHANGED <<mode, result, strategy, consulted, search_start, scan, span>>
    /\ UNCHANGED <<schema, caller, structured_output, stream>>
    /\ UNCHANGED <<workers, files, results, main>>

NextStream ==
    \/ ReadLine
    \/ EndOfStream
    \/ NextPipeline

SpecStream == InitStream /\ [][NextStream]_vars

-----------------------------------------------------------------------------
(* What is said of the event stream, stated on the lines read.             *)

\* the event a line carries
EventOf(line) == loads(Strip(line))

\* the inputs of the StructuredOutput tool calls of one event, in order
CallsOf(event) ==
    IF Get(event, "type", None) # PyStr(<<"assistant">>) THEN <<>>
    ELSE LET content == Get(Get(event, "message", PyDict(<<>>)),
                            "content", PyList(<<>>)).v
             calls_made ==
                 SelectSeq(content, LAMBDA item :
                     /\ Get(item, "type", None) = PyStr(<<"tool_use">>)
                     /\ Get(item, "name", None) = PyStr(<<"StructuredOutput">>))
         IN  [n \in 1..Len(calls_made) |->
                 Get(calls_made[n], "input", PyDict(<<>>))]

\* the inputs of all StructuredOutput tool calls of the lines, in order
StructuredOutputCalls(lines) ==
    Concat([n \in 1..Len(lines) |-> CallsOf(EventOf(lines[n]))])

\* the last of them that is not empty and has the fields of mode m
LastUsableCall(lines, m) ==
    LET usable == SelectSeq(StructuredOutputCalls(lines), LAMBDA v :
                      v.v # <<>> /\ HasFields(v, mode_signatures[m]))
    IN  IF usable = <<>> THEN None ELSE usable[Len(usable)]

\* the texts of the result events of the lines, in order
ResultTexts(lines) ==
    LET result_lines ==
            SelectSeq(lines, LAMBDA line :
                Get(EventOf(line), "type", None) = PyStr(<<"result">>))
    IN  [n \in 1..Len(result_lines) |->
            Get(EventOf(result_lines[n]), "result", PyStr(<<>>)).v]

\* the last result text
LastResultText(lines) ==
    LET texts == ResultTexts(lines) IN
    IF texts = <<>> THEN <<>> ELSE texts[Len(texts)]

\* the stored output is the last usable call of the lines read; at the end
\* of the stream it is the candidate, without extraction, and without one
\* the candidate is extracted from raw_text
CandidateOfStream(raw_text) ==
    /\ structured_output = LastUsableCall(raw_output_lines, mode)
    /\ pc = "decide" =>
          IF structured_output # None
          THEN /\ json_data = structured_output
               /\ consulted = <<>>
          ELSE /\ consulted # <<>>
               /\ text = raw_text
               /\ json_data = IF Truthy(result) /\ ModeMatched(result, mode)
                              THEN result ELSE None

\* C28, as stated: the stored output is the last non-empty StructuredOutput
\* input with the fields of the mode; at the end of the stream it is the
\* candidate, and without one the candidate is extracted from the text of
\* the last result event, or from the joined lines when no result event
\* carried a text that is not empty.
CandidateFromStream ==
    CandidateOfStream(
        IF \E n \in 1..Len(ResultTexts(raw_output_lines)) :
               ResultTexts(raw_output_lines)[n] # <<>>
        THEN LastResultText(raw_output_lines)
        ELSE Concat(raw_output_lines))

\* C28, amended: the joined lines are used when the last result event
\* carries the empty text (or there is no result event), whatever the
\* result events before it carried.
CandidateFromLastResult ==
    CandidateOfStream(
        IF LastResultText(raw_output_lines) # <<>>
        THEN LastResultText(raw_output_lines)
        ELSE Concat(raw_output_lines))

\* a stream without a usable call ended, its last result event empty after
\* one that was not
EmptyResultAfterText ==
    /\ pc = "decide"
    /\ structured_output = None
    /\ LastResultText(raw_output_lines) = <<>>
    /\ \E n \in 1..Len(ResultTexts(raw_output_lines)) :
           ResultTexts(raw_output_lines)[n] # <<>>

-----------------------------------------------------------------------------
(* main of the three backends, from the results map on: the modes run in   *)
(* worker threads of a pool (or one after the other in the main thread),   *)
(* each worker being run_single_mode_analysis; then the combined report.   *)
(* raw_output_file holds the writes that reached raw_output.txt, in order: *)
(* the buffered header lines of a section as one write, the raw output as  *)
(* another.  files holds the writes of the result files.                   *)

AllModes == <<"analyze", "priority", "review">>

\* the elements of a sequence
Range(seq) == {seq[n] : n \in 1..Len(seq)}

\* one result file for every mode
SharedResultFilename(m) == "review_result.json"

\* main: result_filename of the mode's configuration
ResultFilename(m) ==
    IF m = "review" THEN "review_result.json"
    ELSE IF m = "analyze" THEN "change_analysis.json"
    ELSE "review_priority.json"

\* an exception leaves run_single_mode_analysis uncaught
Propagated(exception) ==
    [kind |-> "raise", success |-> FALSE, result |-> <<exception>>]

\* except Exception as e: return (mode, result_filename, False, str(e))
Caught(exception) ==
    [kind |-> "tuple", success |-> FALSE, result |-> <<exception>>]

\* return (mode, result_filename, True, result)
Returned == [kind |-> "tuple", success |-> TRUE, result |-> <<"result">>]

\* the modes before m in the order they are run
Before(m, modes) ==
    {modes[k] : k \in {j \in 1..Len(modes) : \E n \in 1..Len(modes) :
                                                 modes[n] = m /\ j < n}}

InitPool ==
    /\ caller \in SingleMode
    /\ main \in { [pc |-> "pool", modes |-> modes_to_run,
                   sequential |-> sequential, read |-> <<>>] :
                    modes_to_run \in {AllModes} \cup
                                        {<<m>> : m \in Range(AllModes)},
                    sequential \in BOOLEAN }
    /\ main.sequential => caller = ClaudeSingle /\ Len(main.modes) > 1
    /\ workers = [m \in Range(main.modes) |->
                    [pc |-> "idle", ret |-> NoReturn]]
    /\ raw_output_file = <<>>
    /\ files = <<>>
    /\ results = <<>>
    /\ StreamAtRest
    /\ SchemaAtRest
    /\ structured_output = None
    /\ ret = NoReturn
    /\ result_file = None
    /\ text = <<>>
    /\ mode = NoneMode
    /\ pc = "main"
    /\ result = None
    /\ strategy = 0
    /\ consulted = <<>>
    /\ search_start = 0
    /\ scan = ScanStart
    /\ span = None

\* the modes run one after the other in the main thread
Serial == Len(main.modes) = 1 \/ main.sequential

\* what no action of the pool changes
offstage ==
    <<text, mode, pc, result, strategy, consulted, search_start, scan, span,
      schema, caller, structured_output, ret, result_file, stream>>

\* the worker of mode m moves to position to
Goto(m, to) == workers' = [workers EXCEPT ![m].pc = to]

\* main: executor.submit of the mode (the call itself when the modes run
\* one after the other): the worker starts
Submit(m) ==
    /\ main.pc = "pool"
    /\ workers[m].pc = "idle"
    /\ \A earlier \in Before(m, main.modes) :
          /\ workers[earlier].pc # "idle"
          /\ Serial => earlier \in DOMAIN results
    /\ Goto(m, "run")
    /\ UNCHANGED <<raw_output_file, files, results, main, offstage>>

\* the subprocess of the worker ends: a return code that is not 0 raises
RunSubprocess(m) ==
    /\ workers[m].pc = "run"
    /\ \E returncode \in {0, 1} :
          IF returncode # 0
          THEN workers' = [workers EXCEPT ![m].pc = "done",
                                          ![m].ret = Caught("Exception")]
          ELSE Goto(m, IF caller = ClaudeSingle THEN "header"
                       ELSE "inner_header")
    /\ UNCHANGED <<raw_output_file, files, results, main, offstage>>

\* run_codex_with_prompt, run_copilot_with_prompt: raw_output.txt is opened
\* (which may fail) and the header of the section reaches it
AppendInnerHeader(m) ==
    /\ workers[m].pc = "inner_header"
    /\ \/ /\ raw_output_file' = Append(raw_output_file, Header(m))
          /\ Goto(m, "inner_body")
       \/ /\ workers' = [workers EXCEPT ![m].pc = "done",
                                        ![m].ret = Caught("OSError")]
          /\ UNCHANGED raw_output_file
    /\ UNCHANGED <<files, results, main, offstage>>

\* the rest of run_single_mode_analysis, which no other thread sees before
\* it returns: the candidate is extracted, validated and formatted, which
\* ends with the result string or with an exception; the result file is
\* written and the tuple returned; every exception is caught
FinishWorker(m) ==
    \/ /\ workers' = [workers EXCEPT ![m].pc = "done", ![m].ret = Returned]
       /\ files' = Append(files, [file |-> ResultFilename(m), by |-> m])
    \/ /\ workers' = [workers EXCEPT ![m].pc = "done",
                                     ![m].ret = Caught("TypeError")]
       /\ UNCHANGED files

\* run_codex_with_prompt, run_copilot_with_prompt: the raw output reaches
\* raw_output.txt; copilot_cr goes on to the end of the worker
AppendInnerBody(m) ==
    /\ workers[m].pc = "inner_body"
    /\ raw_output_file' = Append(raw_output_file, Body(m))
    /\ IF caller = CodexSingle
       THEN Goto(m, "header") /\ UNCHANGED files
       ELSE FinishWorker(m)
    /\ UNCHANGED <<results, main, offstage>>

\* run_single_mode_analysis of claude_cr and codex_cr: raw_output.txt is
\* opened (claude_cr: which may fail) and the header of the section
\* reaches it
AppendHeader(m) ==
    /\ workers[m].pc = "header"
    /\ \/ /\ raw_output_file' = Append(raw_output_file, Header(m))
          /\ Goto(m, "body")
       \/ /\ caller = ClaudeSingle
          /\ workers' = [workers EXCEPT ![m].pc = "done",
                                        ![m].ret = Caught("OSError")]
          /\ UNCHANGED raw_output_file
    /\ UNCHANGED <<files, results, main, offstage>>

\* run_single_mode_analysis of claude_cr and codex_cr: the raw output
\* reaches raw_output.txt, and the worker goes on to its end
AppendBody(m) ==
    /\ workers[m].pc = "body"
    /\ raw_output_file' = Append(raw_output_file, Body(m))
    /\ FinishWorker(m)
    /\ UNCHANGED <<results, main, offstage>>

\* results[mode] for the worker of mode m: what it returned, or the failure
\* main enters when future.result() raises
Entry(m) ==
    IF workers[m].ret.kind = "raise"
    THEN [mode |-> m, result_filename |-> ResultFilename(m),
          success |-> FALSE, result |-> workers[m].ret.result]
    ELSE [mode |-> m, result_filename |-> ResultFilename(m),
          success |-> workers[m].ret.success,
          result |-> workers[m].ret.result]

\* main, the modes one after the other: the call of the mode returned and
\* its result is entered in the results map
Collect(m) ==
    /\ main.pc = "pool"
    /\ Serial
    /\ workers[m].pc = "done"
    /\ m \notin DOMAIN results
    /\ results' = results @@ (m :> Entry(m))
    /\ UNCHANGED <<workers, raw_output_file, files, main, offstage>>

\* the result files the combined report loads
Loaded ==
    [n \in 1..Len(AllModes) |->
        [file |-> ResultFilename(AllModes[n]),
         exists |-> \E k \in 1..Len(files) :
                       files[k].file = ResultFilename(AllModes[n])]]

\* main, once every worker has finished: the loop over as_completed has
\* entered the result of each worker of the pool in the results map (the
\* shutdown of the pool waits for the workers); the summary is printed
\* and, in mode all, the combined report loads the result files that exist
CombinedReport ==
    /\ main.pc = "pool"
    /\ \A m \in DOMAIN workers : workers[m].pc = "done"
    /\ Serial => DOMAIN results = DOMAIN workers
    /\ results' = IF Serial THEN results
                  ELSE [m \in DOMAIN workers |-> Entry(m)]
    /\ main' = [main EXCEPT
          !.pc = "end",
          !.read = IF Len(main.modes) = 1 THEN <<>> ELSE Loaded]
    /\ UNCHANGED <<workers, raw_output_file, files, offstage>>

NextPool ==
    \/ \E m \in DOMAIN workers : Submit(m)
    \/ \E m \in DOMAIN workers : RunSubprocess(m)
    \/ \E m \in DOMAIN workers : AppendInnerHeader(m)
    \/ \E m \in DOMAIN workers : AppendInnerBody(m)
    \/ \E m \in DOMAIN workers : AppendHeader(m)
    \/ \E m \in DOMAIN workers : AppendBody(m)
    \/ \E m \in DOMAIN workers : Collect(m)
    \/ CombinedReport

SpecPool == InitPool /\ [][NextPool]_vars

(* What the specification says of the worker pool.                         *)

\* the modes run in parallel worker threads
Parallel == Len(main.modes) > 1 /\ ~main.sequential

\* C21: when the modes run in parallel worker threads, the section of each
\* mode is contiguous in raw_output.txt: between the write of the header
\* of a worker and the write of its raw output no write of another worker
\* reaches the file, so every raw output stands directly after the header
\* of its own mode.
SectionsAreContiguous ==
    Parallel =>
        \A k \in 1..Len(raw_output_file) :
            raw_output_file[k].part = "body" =>
                /\ k > 1
                /\ raw_output_file[k - 1] = Header(raw_output_file[k].mode)

\* C27: run_single_mode_analysis never propagates an exception: a worker
\* ends with a tuple, which for a failure holds False and the message; the
\* failure of one mode does not stop the others: main goes on only when
\* every worker has ended, and then the results map holds exactly one entry
\* for each mode that was run, the tuple its worker returned.
WorkersReturnTuples ==
    /\ \A m \in DOMAIN workers :
          /\ workers[m].ret.kind # "raise"
          /\ workers[m].pc = "done" =>
                /\ workers[m].ret.kind = "tuple"
                /\ ~workers[m].ret.success =>
                      workers[m].ret.result
                          \in {<<"Exception">>, <<"TypeError">>, <<"OSError">>}
    /\ main.pc = "end" =>
          /\ DOMAIN results = Range(main.modes)
          /\ \A m \in DOMAIN results :
                /\ workers[m].pc = "done"
                /\ results[m] = [mode |-> m,
                                 result_filename |-> ResultFilename(m),
                                 success |-> workers[m].ret.success,
                                 result |-> workers[m].ret.result]

\* in mode all the pool has finished: one mode failed, another succeeded,
\* and the results map holds the three of them
OneModeFailedInPool ==
    /\ main.pc = "end"
    /\ Parallel
    /\ DOMAIN results = {"analyze", "priority", "review"}
    /\ \E m \in DOMAIN results : ~results[m].success
    /\ \E m \in DOMAIN results : results[m].success

\* C29: raw_output.txt is only appended to, and a mode that was executed
\* (its worker has ended and holds the output of its subprocess) has
\* contributed exactly one section to it: one header and one raw output.
OneSectionPerMode ==
    [][/\ Len(raw_output_file') >= Len(raw_output_file)
       /\ SubSeq(raw_output_file', 1, Len(raw_output_file)) = raw_output_file
       /\ \A m \in DOMAIN workers :
             (workers'[m].pc = "done" /\ workers'[m].ret.success) =>
                 /\ Cardinality({k \in 1..Len(raw_output_file') :
                        raw_output_file'[k] = Header(m)}) = 1
                 /\ Cardinality({k \in 1..Len(raw_output_file') :
                        raw_output_file'[k] = Body(m)}) = 1]_vars

\* C30: in mode all no result file is written by two workers, a worker
\* writes the result file of its own mode, and the combined report loads
\* the result files only when every worker has ended: it finds every file
\* that is ever written.
ResultFilesAreDistinct ==
    /\ \A j, k \in 1..Len(files) :
          files[j].file = files[k].file => files[j].by = files[k].by
    /\ \A k \in 1..Len(files) : files[k].file = ResultFilename(files[k].by)
    /\ main.read # <<>> =>
          /\ \A m \in DOMAIN workers : workers[m].pc = "done"
          /\ main.read = Loaded

\* the three parallel workers of claude_cr have written their three result
\* files and the combined report has loaded them
ThreeFilesReported ==
    /\ caller = ClaudeSingle
    /\ Parallel
    /\ main.pc = "end"
    /\ Len(files) = 3
    /\ \A n \in 1..Len(main.read) : main.read[n].exists

====
